---- MODULE Spec2Model ----
(***************************************************************************)
(* A model of the in-memory runtime of the chat server: the per-topic      *)
(* actor (server/topic.go), the Hub (server/hub.go) and the Session        *)
(* dispatcher (server/session.go).                                         *)
(*                                                                         *)
(* The module holds several specifications over one set of variables; each *)
(* exercises one group of handlers and leaves the other variables alone:   *)
(*   SpecAcs  access-mode arbitration of a group topic (sub, set.sub)      *)
(*   SpecMsg  message counters of a topic (pub, note, del.msg)             *)
(*   SpecPub  publish, fan-out and detaching of stuck sessions             *)
(*   SpecHub  the Hub registry and the life cycle of Topic actors          *)
(*                                                                         *)
(* Presence notifications (presPub..., presTopic...) that the handlers     *)
(* push to other topics through hub.route are not part of the state here.  *)
(***************************************************************************)
EXTENDS Integers, Sequences, FiniteSets, TLC

(***************************************************************************)
(* Users and sessions.                                                     *)
(***************************************************************************)
ZeroUid == "zero"

Users == {"u1", "u2", "u3"}

Sessions == {"s1", "s2", "s3"}

NoSess == "nil"

\* Session.uid of each session
SessUid(s) ==
    CASE s = "s1" -> "u1"
      [] s = "s2" -> "u2"
      [] s = "s3" -> "u3"
      [] OTHER -> ZeroUid

(***************************************************************************)
(* types.AccessMode: a bit set, here the set of the letters of its bits.   *)
(***************************************************************************)
ModeNone == {}

ModeBanned == {"X"}

ModePub == {"W"}

ModeShare == {"S"}

ModeDelete == {"D"}

ModeOwner == {"O"}

ModePublic == {"R", "W", "P"}

ModeManager == {"R", "W", "P", "S", "D"}

ModeFull == {"R", "W", "P", "S", "D", "O"}

\* Mutation of IsBanned: no mode counts as banned
NeverBanned(a) == FALSE

IsBanned(a) == "X" \in a

IsOwner(a) == "O" \in a

IsManager(a) == IsOwner(a) \/ "S" \in a

\* grant.Check(want): grant allows all that want asks for
Check(grant, want) == (grant \cap want) = want

\* One letter of a wire mode string: the bit it sets, "N" for the reset,
\* "?" for an invalid character
LetterBit(c) ==
    CASE c \in {"R", "r"} -> "R"
      [] c \in {"W", "w"} -> "W"
      [] c \in {"S", "s"} -> "S"
      [] c \in {"D", "d"} -> "D"
      [] c \in {"P", "p"} -> "P"
      [] c \in {"O", "o"} -> "O"
      [] c \in {"X", "x"} -> "X"
      [] c \in {"N", "n"} -> "N"
      [] OTHER -> "?"

\* The loop of UnmarshalText over b[i..]: m0 after the loop, or an error
RECURSIVE ParseLetters(_, _, _)
ParseLetters(b, i, m0) ==
    IF i > Len(b) THEN [err |-> FALSE, m |-> m0]
    ELSE LET bit == LetterBit(b[i]) IN
         IF bit = "?" THEN [err |-> TRUE, m |-> m0]
         ELSE IF bit = "N" THEN ParseLetters(b, i + 1, {})
         ELSE ParseLetters(b, i + 1, m0 \cup {bit})

\* The value of *m after m.UnmarshalText(b), m holding old before the call:
\* on an error *m is not assigned
UnmarshalText(b, old) ==
    LET r == ParseLetters(b, 1, {}) IN
    IF r.err THEN old
    ELSE IF IsBanned(r.m) THEN ModeBanned
    ELSE r.m

(***************************************************************************)
(* Server-to-client messages and their delivery.                           *)
(***************************************************************************)
Ctrl(code) == [kind |-> "ctrl", code |-> code, seq |-> 0]

CtrlSeq(code, seq) == [kind |-> "ctrl", code |-> code, seq |-> seq]

Data(seq) == [kind |-> "data", code |-> 0, seq |-> seq]

NoErr == Ctrl(200)

NoErrAccepted(seq) == CtrlSeq(202, seq)

NoErrEvicted == Ctrl(205)

InfoNoAction == Ctrl(304)

ErrMalformed == Ctrl(400)

ErrPermissionDenied == Ctrl(403)

ErrUnknown == Ctrl(500)

\* One call of queueOut or one send to a session: [to |-> session, msg |-> m]
Emit(s, m) == IF s = NoSess THEN <<>> ELSE <<[to |-> s, msg |-> m]>>

RECURSIVE MsgsTo(_, _)
MsgsTo(em, s) ==
    IF em = <<>> THEN <<>>
    ELSE IF em[1].to = s THEN <<em[1].msg>> \o MsgsTo(Tail(em), s)
    ELSE MsgsTo(Tail(em), s)

VARIABLES
    \* Topic (one group topic)
    perUser,      \* t.perUser: per-subscriber cache; has = FALSE: no entry
    owner,        \* t.owner
    accessAuth,   \* t.accessAuth
    lastId,       \* t.lastId
    clearId,      \* t.clearId
    sessions,     \* t.sessions: the attached set
    unregq,       \* t.unreg: the mailbox of leave requests
    broadcast,    \* t.broadcast: the mailbox of data and info messages
    killTimer,    \* whether killTimer is ticking
    \* Sessions
    subs,         \* the sessions whose s.subs holds the topic
    sendFull,     \* the sessions whose send buffer is full
    out,          \* per session: messages put into s.send by the last step
    lost,         \* per session: messages queueOut gave up on in the last step
    \* Store
    storeSubs,    \* the topic's subscriptions in the store
    storeMsgs,    \* the seq ids of the topic's saved messages, in saving order
    pushed,       \* the seq ids of the push receipts handed to push.Push
    \* Hub and the actors of one topic name (SpecHub)
    topics,       \* h.topics[name]: the registered actor, NoActor if none
    actor,        \* per actor: its state
    joined,       \* per session: the actor whose channels s.subs[name] holds
    hubUp,        \* whether Hub.run is still in its loop
    storeSeq,     \* the topic's SeqId in the store
    delivered,    \* the data messages sent to sessions so far: <<message, seq>>
    dropped,      \* the number of messages Hub.run has discarded
    \* Clients
    ver,          \* s.ver of the session of SpecSess, 0 while unset
    device,       \* its s.deviceID, s.lang and s.userAgent, as one value
    subsOf,       \* the topic names that are keys of its s.subs
    doneq,        \* the leave requests it has put on sub.done, per topic
    p2p,          \* the P2P topic of u1 and u2: its store records and its actor
    cluster,      \* this node's Cluster: ring keys, multiplexing sessions, replies
    hosted,       \* the Hub's registry and actors of SpecCluster, per topic name
    amode,        \* an AccessMode value of SpecMode
    wire,         \* the wire mode string last made from or parsed into amode
    me,           \* the me topics of SpecPres, per user: whether the Hub has it
                  \* registered, where its goroutine is, t.perSubs' entry for
                  \* the other user, t.broadcast
    proute,       \* the presence messages in hub.route
    crashed,      \* the server process has panicked
    pdropped,     \* the presence messages the Hub has dropped
    msend,        \* msess.send of the multiplexing session at the master
    tproxy,       \* t.proxy of the proxy topic: the responses of the master
    pattached,    \* the sessions attached at the proxy topic and at the master
    pout,         \* what each session of the proxy node has been sent
    lout,         \* what it would have been sent by a local topic
    pemit,        \* the number of messages the master topic has sent
    auth,         \* s.uid and s.authLvl of the session of SpecLogin
    metaq,        \* the set and del requests the session of SpecSet has handed
                  \* on: to sub.meta, to hub.unreg or to the cluster
    cnode,        \* a ClusterNode of SpecNode: connected, reconnecting, n.done,
                  \* the reconnect goroutines and the callers of n.call
    mux,          \* the multiplexing sessions of one topic and one proxy node
                  \* on the master (SpecMux)
    clock,        \* time.Now() of SpecTok, in ticks
    token,        \* the token bytes at hand, by region
    issue,        \* what the last GenSecret was called with and returned
    authRes,      \* what the last Authenticate returned
    shutdown,     \* the Hub's shutdown: [inProgress |-> h.isShutdownInProgress,
                  \* awaited |-> the actor whose done the Hub waits for,
                  \* done |-> whether the Hub has reported completion]
    nreq,         \* the number of requests the clients have sent so far
    req           \* the request that the last step handled

topicVars == <<perUser, owner, accessAuth, lastId, clearId, sessions, unregq, broadcast,
               killTimer>>

sessVars == <<subs, sendFull, out, lost>>

storeVars == <<storeSubs, storeMsgs, pushed>>

hubVars == <<topics, actor, joined, hubUp, storeSeq, delivered, dropped>>

\* State that only some of the specifications move
\* The variables of SpecMode
modeVars == <<amode, wire>>

\* The variables of the specifications about single parts of the server
tokVars == <<clock, token, issue, authRes>>

presVars == <<me, proute, crashed, pdropped>>

proxyVars == <<msend, tproxy, pattached, pout, lout, pemit>>

loginVars == <<auth, metaq>>

nodeVars == <<cnode, mux>>

extraVars == <<nodeVars, modeVars, tokVars, presVars, proxyVars, loginVars>>

sideVars == <<ver, device, subsOf, doneq, p2p, cluster, hosted, shutdown, extraVars>>

vars == <<topicVars, sessVars, storeVars, hubVars, sideVars, nreq, req>>

\* The clients send MaxReq requests at most
MaxReq == 4

\* A client request op of session s, about user, with the flags arg
Req(op, s, user, arg) == [op |-> op, sess |-> s, user |-> user, arg |-> arg]

NoReq == Req("", NoSess, "", <<>>)

Request(r) ==
    /\ nreq < MaxReq
    /\ nreq' = nreq + 1
    /\ req' = r

(***************************************************************************)
(* The actors of the Hub's topic name; the Hub part is further below.      *)
(***************************************************************************)
\* The model creates MaxActors actors at most for the name
MaxActors == 2

Actors == 1..MaxActors

NoActor == 0

\* An actor that topicInit has not created yet
NoTopic == [status |-> "none", sreg |-> NoSess, lastId |-> 0, sessions |-> {},
            reg |-> <<>>, unreg |-> <<>>, broadcast |-> <<>>, killTimer |-> FALSE,
            fired |-> FALSE, exit |-> FALSE]

\* No shutdown has been asked for
NoShutdown == [inProgress |-> FALSE, awaited |-> NoActor, done |-> FALSE]

\* The initial values of sideVars
\* The nodes of the cluster: this node and its peers (Cluster.thisNodeName,
\* Cluster.nodes)
ThisNode == "n1"

Peers == {"n2", "n3"}

Nodes == {ThisNode} \cup Peers

\* The topic names of SpecCluster
ClusterNames == {"grpA", "grpB"}

\* The Cluster when the node has started: the ring over all nodes, no
\* multiplexing session, nothing handed to the Hub
NoCluster == [keys |-> Nodes, pending |-> FALSE, msess |-> {}, enq |-> 0,
              evicted |-> FALSE, rejected |-> FALSE, err |-> FALSE]

\* A topic name without registry entry and without actor
NoHosted == [status |-> "none", registered |-> FALSE, exit |-> FALSE,
             sreg |-> NoSess, sessions |-> {}]

\* The P2P topic before its first {sub}: no topic record and no subscription
\* in the store, no actor
NoP2P == [stored |-> FALSE, dbSubs |-> {}, loaded |-> FALSE, perUser |-> {},
          sessions |-> {}, killTimer |-> FALSE, panicked |-> FALSE]

\* No AccessMode value is being converted
ModeIdle ==
    /\ amode = ModeNone
    /\ wire = <<>>

\* No token issued, none checked
NoToken == [uid |-> "", expires |-> 0, authLvl |-> 0, serial |-> 0, sig |-> <<>>, len |-> 0]

NoIssue == [at |-> 0, uid |-> "", authLvl |-> 0, lifetime |-> 0, expires |-> 0,
            err |-> "", changed |-> ""]

NoAuth == [at |-> 0, uid |-> "", authLvl |-> 0, expires |-> 0, err |-> ""]

TokIdle ==
    /\ clock = 0
    /\ token = NoToken
    /\ issue = NoIssue
    /\ authRes = NoAuth

\* The two users of SpecPres; each is a contact of the other
PresUsers == {"u1", "u2"}

Contact(u) == IF u = "u1" THEN "u2" ELSE "u1"

\* A user not in t.perSubs, and t.perSubs before loadContacts (a nil map)
NoPsd == [has |-> FALSE, online |-> FALSE, enabled |-> FALSE]

NoMe == [reg |-> FALSE, run |-> "none", nilSubs |-> TRUE, perSubs |-> NoPsd,
         broadcast |-> <<>>, offPending |-> FALSE]

PresIdle ==
    /\ me = [u \in PresUsers |-> NoMe]
    /\ proute = <<>>
    /\ crashed = FALSE
    /\ pdropped = 0

\* The sessions of the proxy node
ProxySessions == {"s1", "s2"}

ProxyIdle ==
    /\ msend = <<>>
    /\ tproxy = <<>>
    /\ pattached = [master |-> {}, proxy |-> {}]
    /\ pout = [s \in ProxySessions |-> <<>>]
    /\ lout = [s \in ProxySessions |-> <<>>]
    /\ pemit = 0

\* A session that has not logged in
NotAuthenticated == [uid |-> "", authLvl |-> 0]

LoginIdle == auth = NotAuthenticated /\ metaq = <<>>

\* The reconnect goroutines and the callers of n.call in SpecNode
Loops == 1..2

Callers == 1..3

\* A ClusterNode as Cluster init leaves it (part_002 845-851), before
\* Cluster.start
NewNode == [started |-> FALSE, connected |-> FALSE, reconnecting |-> FALSE,
            done |-> 0, shut |-> FALSE,
            loop |-> [i \in Loops |-> "none"],
            call |-> [c \in Callers |-> "idle"]]

\* The handlers of TopicMaster that run at one time in SpecMux
Handlers == 1..2

IdleHandler == [pc |-> "idle", gone |-> FALSE, stale |-> FALSE, msess |-> 0]

\* No multiplexing session: nothing in the session store, node.msess empty
NoMux == [stored |-> 0, alive |-> {}, made |-> 0, stop |-> {}, inMsess |-> FALSE,
          h |-> [x \in Handlers |-> IdleHandler]]

NodeIdle == cnode = NewNode /\ mux = NoMux

ExtraIdle ==
    /\ NodeIdle
    /\ ModeIdle
    /\ TokIdle
    /\ PresIdle
    /\ ProxyIdle
    /\ LoginIdle

\* No session of SpecSess, no P2P topic, the cluster as started, no shutdown
CoreIdle ==
    /\ shutdown = NoShutdown
    /\ ver = 0
    /\ device = ""
    /\ subsOf = {}
    /\ doneq = <<>>
    /\ p2p = NoP2P
    /\ cluster = NoCluster
    /\ hosted = [n \in ClusterNames |-> NoHosted]

SideIdle ==
    /\ CoreIdle
    /\ ExtraIdle

\* The Hub before the first join
HubIdle ==
    /\ topics = NoActor
    /\ actor = [a \in Actors |-> NoTopic]
    /\ joined = [s \in Sessions |-> NoActor]
    /\ hubUp = TRUE
    /\ storeSeq = 0
    /\ delivered = {}
    /\ dropped = 0

\* The zero value of perUserData: what a map lookup of a missing key returns
NoPud == [has |-> FALSE, modeWant |-> ModeNone, modeGiven |-> ModeNone,
          online |-> 0, recvId |-> 0, readId |-> 0, clearId |-> 0]

Pud(want, given) == [has |-> TRUE, modeWant |-> want, modeGiven |-> given,
                     online |-> 0, recvId |-> 0, readId |-> 0, clearId |-> 0]

\* A subscription record of the store; has = FALSE: no record
NoSub == [has |-> FALSE, ModeWant |-> ModeNone, ModeGiven |-> ModeNone,
          RecvSeqId |-> 0, ReadSeqId |-> 0]

Sub(want, given) == [has |-> TRUE, ModeWant |-> want, ModeGiven |-> given,
                     RecvSeqId |-> 0, ReadSeqId |-> 0]

\* store.Subs.Update(topic, uid, fields): a missing record is left missing
SubsUpdate(store, uid, fields) ==
    IF store[uid].has
    THEN [store EXCEPT ![uid] = [f \in DOMAIN store[uid] |->
              IF f \in DOMAIN fields THEN fields[f] ELSE store[uid][f]]]
    ELSE store

\* Session.queueOut and the topic's non-blocking send: the message enters
\* s.send unless the buffer is full
QueueOut(em) ==
    /\ out' = [s \in Sessions |-> IF s \in sendFull THEN <<>> ELSE MsgsTo(em, s)]
    /\ lost' = [s \in Sessions |-> IF s \in sendFull THEN MsgsTo(em, s) ELSE <<>>]

NoOut == [s \in Sessions |-> <<>>]

(***************************************************************************)
(* Topic: access-mode arbitration (sub and set.sub).                       *)
(***************************************************************************)
RECURSIVE EmitAll(_, _)
EmitAll(S, m) ==
    IF S = {} THEN <<>>
    ELSE LET s == CHOOSE x \in S : TRUE IN Emit(s, m) \o EmitAll(S \ {s}, m)

\* evictUser(uid, unsub, ignore) applied to the cache pu, the attached set ss
\* and the sessions' own subscription maps sb (each evicted session is told
\* through its detach channel and drops the topic from s.subs)
EvictUser(pu, ss, sb, uid, unsub, ignore) ==
    LET gone == {x \in ss : SessUid(x) = uid} IN
    [perUser  |-> IF unsub THEN [pu EXCEPT ![uid] = NoPud]
                  ELSE [pu EXCEPT ![uid] = [@ EXCEPT !.has = TRUE, !.online = 0]],
     sessions |-> ss \ gone,
     subs     |-> sb \ gone,
     em       |-> EmitAll(gone \ {ignore}, NoErrEvicted)]

\* What a handler leaves behind: err as the Go error, the new cache, owner,
\* store, attached set, session maps, and the messages it sent to sessions
Outcome(err, pu, ow, st, ss, sb, em) ==
    [err |-> err, perUser |-> pu, owner |-> ow, storeSubs |-> st,
     sessions |-> ss, subs |-> sb, em |-> em]

\* A handler that returns before changing anything, after sending em
Rejected(em) == Outcome(TRUE, perUser, owner, storeSubs, sessions, subs, em)

\* requestSub from line 754 on: the cache entry is written, then the bans
RequestSubTail(s, pu, ow, st, userData, modeWant) ==
    LET uid == SessUid(s)
        pu1 == [pu EXCEPT ![uid] = userData]
    IN IF IsBanned(modeWant)
       THEN LET ev == EvictUser(pu1, sessions, subs, uid, FALSE, s) IN
            Outcome(TRUE, ev.perUser, ow, st, ev.sessions, ev.subs, ev.em)
       ELSE IF IsBanned(userData.modeGiven)
       THEN Outcome(TRUE, pu1, ow, st, sessions, subs, Emit(s, ErrPermissionDenied))
       ELSE Outcome(FALSE, pu1, ow, st, sessions, subs, <<>>)

\* requestSub, the branch of a user with no subscription (lines 609-656)
RequestSubNew(s, modeWant0, explicitWant, okCreate) ==
    LET uid == SessUid(s) IN
    IF modeWant0 = ModeNone /\ explicitWant
    THEN Rejected(Emit(s, ErrMalformed))
    ELSE LET modeWant == IF modeWant0 = ModeNone THEN accessAuth ELSE modeWant0
             userData == Pud(modeWant, accessAuth)
         IN IF ~okCreate
            THEN Rejected(Emit(s, ErrUnknown))
            ELSE RequestSubTail(s, perUser, owner,
                     [storeSubs EXCEPT ![uid] = Sub(modeWant, accessAuth)],
                     userData, modeWant)

\* The transfer of ownership at the end of requestSub (lines 736-751): the
\* local userData becomes the previous owner's entry
OwnerChange(s, st, modeWant, okUpdOwner) ==
    LET uid == SessUid(s)
        od  == [perUser[owner] EXCEPT !.modeGiven = @ \ ModeOwner,
                                      !.modeWant = @ \ ModeOwner]
    IN IF ~okUpdOwner
       THEN Outcome(TRUE, perUser, owner, st, sessions, subs, <<>>)
       ELSE RequestSubTail(s, [perUser EXCEPT ![owner] = [od EXCEPT !.has = TRUE]], uid,
                SubsUpdate(st, owner, [ModeWant |-> od.modeWant, ModeGiven |-> od.modeGiven]),
                [od EXCEPT !.has = TRUE], modeWant)

\* requestSub, the branch of an existing subscription (lines 658-752)
RequestSubExisting(s, modeWant0, explicitWant, okUpd, okUpdOwner) ==
    LET uid == SessUid(s)
        ud  == perUser[uid]
        mw1 == IF ~explicitWant /\ modeWant0 = ModeNone THEN ud.modeWant ELSE modeWant0
        isO == IsOwner(ud.modeGiven)
        ownerChange == isO /\ IsOwner(mw1) /\ ~IsOwner(ud.modeWant)
        given1 ==
            IF isO
            THEN IF IsOwner(mw1) /\ ~Check(ud.modeGiven, mw1)
                 THEN ud.modeGiven \cup mw1 ELSE ud.modeGiven
            ELSE IF IsManager(ud.modeGiven) /\ IsManager(mw1)
                    /\ ~Check(ud.modeGiven, mw1 \ ModeBanned)
                 THEN ud.modeGiven \cup (mw1 \ ModeBanned) ELSE ud.modeGiven
        given2 == IF given1 = ModeNone /\ accessAuth # ModeNone THEN accessAuth ELSE given1
        updGiven == given2 # ud.modeGiven
        mw2 == IF mw1 = ModeNone THEN given2 ELSE mw1
        updWant == ud.modeWant # mw2
        ud1 == [ud EXCEPT !.modeGiven = given2, !.modeWant = mw2]
        st0 == IF updWant THEN SubsUpdate(storeSubs, uid, [ModeWant |-> mw2]) ELSE storeSubs
        st1 == IF updGiven THEN SubsUpdate(st0, uid, [ModeGiven |-> given2]) ELSE st0
    IN IF isO /\ owner = uid /\ (~IsOwner(mw1) \/ IsBanned(mw1))
       THEN Rejected(Emit(s, ErrMalformed))
       ELSE IF ~isO /\ IsOwner(mw1)
       THEN Rejected(Emit(s, ErrMalformed))
       ELSE IF (updWant \/ updGiven) /\ ~okUpd
       THEN Rejected(Emit(s, ErrUnknown))
       ELSE IF ownerChange
       THEN OwnerChange(s, st1, mw2, okUpdOwner)
       ELSE RequestSubTail(s, perUser, owner, st1, ud1, mw2)

\* requestSub(h, sess, pktId, want, info, private, loaded); okUpd and
\* okUpdOwner are the outcomes of the store calls it makes
RequestSub(s, want, okUpd, okUpdOwner) ==
    LET explicitWant == want # <<>>
        parsed == IF explicitWant THEN UnmarshalText(want, ModeNone) ELSE ModeNone
        modeWant == IF IsBanned(parsed) THEN ModeBanned ELSE parsed
    IN IF ~perUser[SessUid(s)].has
       THEN RequestSubNew(s, modeWant, explicitWant, okUpd)
       ELSE RequestSubExisting(s, modeWant, explicitWant, okUpd, okUpdOwner)

\* approveSub(h, sess, target, set): a manager sets another user's given
\* mode; okStore is the outcome of the store call it makes
ApproveSub(s, target, mode, okStore) ==
    LET uid == SessUid(s)
        rd  == perUser[uid]
        parsed == IF mode # <<>> THEN UnmarshalText(mode, ModeNone) ELSE ModeNone
        mg0 == IF IsBanned(parsed) THEN ModeBanned ELSE parsed
        td  == perUser[target]
    IN IF ~rd.has \/ ~IsManager(rd.modeGiven) \/ ~IsManager(rd.modeWant)
       THEN Rejected(Emit(s, ErrPermissionDenied))
       ELSE IF IsOwner(mg0) /\ owner # uid
       THEN Rejected(Emit(s, ErrPermissionDenied))
       ELSE IF ~td.has
       THEN \* a new invite
            IF mg0 = ModeNone /\ accessAuth = ModeNone
            THEN Rejected(Emit(s, ErrMalformed))
            ELSE IF ~okStore
            THEN Rejected(Emit(s, ErrUnknown))
            ELSE LET mg == IF mg0 = ModeNone THEN accessAuth ELSE mg0 IN
                 Outcome(FALSE, [perUser EXCEPT ![target] = Pud(ModeNone, mg)], owner,
                         [storeSubs EXCEPT ![target] = Sub(ModeNone, mg)],
                         sessions, subs, <<>>)
       ELSE \* an existing subscription
            IF mg0 = ModeNone \/ mg0 = td.modeGiven
            THEN IF IsBanned(td.modeWant)
                 THEN Rejected(Emit(s, ErrPermissionDenied))
                 ELSE Outcome(FALSE, perUser, owner, storeSubs, sessions, subs, <<>>)
            ELSE IF ~okStore
            THEN Rejected(<<>>)
            ELSE \* the changed value is saved under the requester's id
                 Outcome(IsBanned(td.modeWant),
                         [perUser EXCEPT ![target].modeGiven = mg0], owner,
                         SubsUpdate(storeSubs, uid, [ModeGiven |-> mg0]),
                         sessions, subs,
                         IF IsBanned(td.modeWant) THEN Emit(s, ErrPermissionDenied) ELSE <<>>)

\* replySetSub(h, sess, set): user is set.Sub.User, "" for the requester
ReplySetSub(s, user, mode, okUpd, okUpdOwner) ==
    IF user # "" /\ user \notin Users
    THEN Rejected(Emit(s, ErrMalformed))
    ELSE IF user = "" \/ user = SessUid(s)
    THEN RequestSub(s, mode, okUpd, okUpdOwner)
    ELSE ApproveSub(s, user, mode, okUpd)

\* The handler's outcome r becomes the next state
Apply(r) ==
    /\ perUser' = r.perUser
    /\ owner' = r.owner
    /\ storeSubs' = r.storeSubs
    /\ sessions' = r.sessions
    /\ subs' = r.subs
    /\ QueueOut(r.em)

\* Wire mode strings the clients send
ModeInputs == {<<>>, <<"N">>, <<"R", "W", "P">>, <<"R", "W", "P", "S">>,
               <<"R", "W", "P", "S", "D", "O">>, <<"X">>, <<"R", "X">>}

\* Whether the wire mode string asks for O
HasOwnerBit(mode) == IsOwner(UnmarshalText(mode, ModeNone))

\* Topic.run, case sreg := <-t.reg, for a sub that Session.subscribe handed
\* on because the topic is not in s.subs: handleSubscription, subCommonReply
Reg(s, mode, okUpd, okUpdOwner) ==
    /\ Request(Req("sub", s, "", <<HasOwnerBit(mode)>>))
    /\ UNCHANGED sideVars
    /\ s \notin subs
    /\ LET r == RequestSub(s, mode, okUpd, okUpdOwner)
           uid == SessUid(s)
       IN IF r.err
          THEN /\ Apply(r)
               /\ killTimer' = (r.sessions = {})
          ELSE /\ Apply([r EXCEPT !.perUser[uid].online = @ + 1,
                                  !.sessions = @ \cup {s},
                                  !.subs = @ \cup {s},
                                  !.em = @ \o Emit(s, NoErr)])
               /\ killTimer' = FALSE
    /\ UNCHANGED <<accessAuth, lastId, clearId, unregq, sendFull, storeMsgs, broadcast, pushed, hubVars>>

\* Topic.run, case meta := <-t.meta with a set.sub that Session.set handed
\* on because the topic is in s.subs
SetSub(s, user, mode, okUpd, okUpdOwner) ==
    /\ Request(Req("set", s, user, <<HasOwnerBit(mode)>>))
    /\ UNCHANGED sideVars
    /\ s \in subs
    /\ Apply(ReplySetSub(s, user, mode, okUpd, okUpdOwner))
    /\ UNCHANGED <<accessAuth, lastId, clearId, unregq, killTimer, sendFull, storeMsgs, broadcast, pushed, hubVars>>

(***************************************************************************)
(* Leaving a topic.                                                        *)
(***************************************************************************)
\* Capacity of the t.unreg mailbox (32 in topicInit); a sender blocks on a
\* full mailbox
UnregCap == 2

\* One request in t.unreg
SessionLeave(s, unsub, hasId) == [sess |-> s, unsub |-> unsub, hasId |-> hasId]

\* Session.leave for a topic in s.subs: unlink, then hand on to the topic
SessLeave(s, unsub, hasId) ==
    /\ Request(Req("leave", s, "", <<>>))
    /\ UNCHANGED sideVars
    /\ s \in subs
    /\ Len(unregq) < UnregCap
    /\ subs' = subs \ {s}
    /\ unregq' = Append(unregq, SessionLeave(s, unsub, hasId))
    /\ out' = NoOut
    /\ lost' = NoOut
    /\ UNCHANGED <<perUser, owner, accessAuth, lastId, clearId, sessions, killTimer,
                   sendFull, storeSubs, storeMsgs, broadcast, pushed, hubVars>>

\* replyLeaveUnsub(h, sess, id, topic) when store.Subs.Delete succeeds
ReplyLeaveUnsub(s, hasId) ==
    LET uid == SessUid(s)
        ev  == EvictUser(perUser, sessions, subs, uid, TRUE, s)
    IN Outcome(FALSE, ev.perUser, owner, [storeSubs EXCEPT ![uid] = NoSub],
               ev.sessions, ev.subs,
               ev.em \o (IF hasId THEN Emit(s, NoErr) ELSE <<>>))

\* The leave without unsub of Topic.run: detach and count the user's
\* sessions down
LeaveOnly(s, hasId) ==
    LET uid == SessUid(s) IN
    Outcome(FALSE,
            [perUser EXCEPT ![uid] = [@ EXCEPT !.has = TRUE, !.online = @ - 1]],
            owner, storeSubs, sessions \ {s}, subs,
            IF hasId THEN Emit(s, NoErr) ELSE <<>>)

\* Topic.run, case leave := <-t.unreg. A failing store.Subs.Delete panics
\* the process: no step follows it.
TopicUnreg ==
    /\ unregq # <<>>
    /\ LET leave == Head(unregq)
           r == IF leave.unsub THEN ReplyLeaveUnsub(leave.sess, leave.hasId)
                ELSE LeaveOnly(leave.sess, leave.hasId)
       IN /\ Apply(r)
          /\ killTimer' = IF r.sessions = {} THEN TRUE ELSE killTimer
    /\ unregq' = Tail(unregq)
    /\ req' = NoReq
    /\ UNCHANGED sideVars
    /\ UNCHANGED <<accessAuth, lastId, clearId, sendFull, storeMsgs, nreq, broadcast, pushed, hubVars>>

(***************************************************************************)
(* SpecAcs: a group topic that user u1 created and owns; sessions join,    *)
(* leave and change access modes.                                          *)
(***************************************************************************)
InitAcs ==
    /\ perUser = [u \in Users |-> IF u = "u1" THEN Pud(ModeFull, ModeFull) ELSE NoPud]
    /\ storeSubs = [u \in Users |-> IF u = "u1" THEN Sub(ModeFull, ModeFull) ELSE NoSub]
    /\ owner = "u1"
    /\ accessAuth = ModePublic
    /\ lastId = 0
    /\ clearId = 0
    /\ sessions = {}
    /\ subs = {}
    /\ unregq = <<>>
    /\ killTimer = FALSE
    /\ sendFull = {}
    /\ out = NoOut
    /\ lost = NoOut
    /\ storeMsgs = <<>>
    /\ broadcast = <<>>
    /\ pushed = <<>>
    /\ HubIdle
    /\ SideIdle
    /\ nreq = 0
    /\ req = NoReq

\* The outcomes of a handler's first and second store call; the second is
\* only made after the first succeeded
StoreOutcomes == {<<TRUE, TRUE>>, <<TRUE, FALSE>>, <<FALSE, TRUE>>}

NextAcs ==
    \/ \E s \in Sessions, m \in ModeInputs, ok \in StoreOutcomes : Reg(s, m, ok[1], ok[2])
    \/ \E s \in Sessions, u \in Users \cup {""}, m \in ModeInputs, ok \in StoreOutcomes :
           SetSub(s, u, m, ok[1], ok[2])
    \/ \E s \in Sessions, unsub, hasId \in BOOLEAN : SessLeave(s, unsub, hasId)
    \/ TopicUnreg

SpecAcs == InitAcs /\ [][NextAcs]_vars

(***************************************************************************)
(* Topic: the broadcast mailbox (data and info messages) and del.msg.      *)
(***************************************************************************)
\* Capacity of the t.broadcast mailbox (256 in topicInit)
BroadcastCap == 2

\* The largest seq id a client puts into a note or a del.msg
MaxSeq == 3

\* The message Session.publish makes of a pub request
DataMsg(s, hasId, noecho) ==
    [kind |-> "data", sessFrom |-> s, from |-> SessUid(s), hasId |-> hasId,
     sessSkip |-> IF noecho THEN s ELSE NoSess, what |-> "", seq |-> 0]

\* The message Session.note makes of a note request
InfoMsg(s, what, seq) ==
    [kind |-> "info", sessFrom |-> NoSess, from |-> SessUid(s), hasId |-> FALSE,
     sessSkip |-> s, what |-> what, seq |-> seq]

\* The {info} packet the sessions receive
Info(seq) == [kind |-> "info", code |-> 0, seq |-> seq]

\* Session.publish for a topic in s.subs: the send blocks on a full mailbox
SessPublish(s, hasId, noecho) ==
    /\ Request(Req("pub", s, "", <<hasId, noecho>>))
    /\ UNCHANGED sideVars
    /\ s \in subs
    /\ Len(broadcast) < BroadcastCap
    /\ broadcast' = Append(broadcast, DataMsg(s, hasId, noecho))
    /\ out' = NoOut
    /\ lost' = NoOut
    /\ UNCHANGED <<perUser, owner, accessAuth, lastId, clearId, sessions, unregq, killTimer,
                   subs, sendFull, storeVars, hubVars>>

\* Session.note for a topic in s.subs
SessNote(s, what, seq) ==
    /\ Request(Req("note", s, "", <<>>))
    /\ UNCHANGED sideVars
    /\ \/ what = "kp" /\ seq = 0
       \/ what \in {"read", "recv"} /\ seq > 0
    /\ s \in subs
    /\ Len(broadcast) < BroadcastCap
    /\ broadcast' = Append(broadcast, InfoMsg(s, what, seq))
    /\ out' = NoOut
    /\ lost' = NoOut
    /\ UNCHANGED <<perUser, owner, accessAuth, lastId, clearId, sessions, unregq, killTimer,
                   subs, sendFull, storeVars, hubVars>>

\* Mutation of CanPublish: every sender may publish
AnyoneCanPublish(m) == TRUE

\* Mutation of SkipOf: the fan-out leaves no session out
SkipNobody(m) == NoSess

\* The sender of a data message may publish: the check of lines 245-251
CanPublish(m) ==
    \/ m.sessFrom = NoSess
    \/ "W" \in (perUser[m.from].modeWant \cap perUser[m.from].modeGiven)

\* The session the fan-out of message m leaves out
SkipOf(m) == m.sessSkip

\* The orders in which a range over the set S can visit its members
Orders(S) ==
    {q \in [1..Cardinality(S) -> S] : \A i, j \in 1..Cardinality(S) : q[i] = q[j] => i = j}

\* The fan-out of lines 334-366: the packet goes to every attached session
\* but the skipped one; a session with a full send buffer gets a leave
\* request in t.unreg instead. em0 is what the handler queued before.
Forward(m, em0, packet) ==
    LET rcpts == sessions \ {SkipOf(m)}
        stuck == rcpts \cap sendFull
    IN /\ Len(unregq) + Cardinality(stuck) <= UnregCap
       /\ \E q \in Orders(stuck) :
             unregq' = unregq \o [i \in 1..Len(q) |-> SessionLeave(q[i], FALSE, FALSE)]
       /\ QueueOut(em0 \o EmitAll(rcpts, packet))

\* A message that ends with replies em and nothing else
Quiet(em) ==
    /\ QueueOut(em)
    /\ UNCHANGED <<perUser, storeSubs, lastId, storeMsgs, pushed, unregq>>

\* Topic.run, case msg := <-t.broadcast, msg.Data != nil (lines 240-279)
HandleData(m, okSave) ==
    IF ~CanPublish(m)
    THEN Quiet(Emit(m.sessFrom, ErrPermissionDenied))
    ELSE IF ~okSave
    THEN Quiet(Emit(m.sessFrom, ErrUnknown))
    ELSE /\ lastId' = lastId + 1
         /\ storeMsgs' = Append(storeMsgs, lastId + 1)
         /\ pushed' = Append(pushed, lastId + 1)
         /\ Forward(m, IF m.hasId THEN Emit(m.sessFrom, NoErrAccepted(lastId + 1)) ELSE <<>>,
                    Data(lastId + 1))
         /\ UNCHANGED <<perUser, storeSubs>>

\* The counters of pud after a read or recv note with seq (lines 297-317)
Noted(pud, what, seq) ==
    LET p1 == IF what = "read" THEN [pud EXCEPT !.readId = seq]
              ELSE [pud EXCEPT !.recvId = seq]
    IN IF p1.readId > p1.recvId THEN [p1 EXCEPT !.recvId = p1.readId] ELSE p1

\* Topic.run, case msg := <-t.broadcast, msg.Info != nil (lines 287-332)
HandleInfo(m, okUpd) ==
    LET pud == perUser[m.from]
        new == Noted(pud, m.what, m.seq)
    IN IF m.seq > lastId
       THEN Quiet(<<>>)
       ELSE IF m.what \notin {"read", "recv"}
       THEN /\ Forward(m, <<>>, Info(m.seq))
            /\ UNCHANGED <<perUser, storeSubs, lastId, storeMsgs, pushed>>
       ELSE IF \/ m.what = "read" /\ m.seq <= pud.readId
               \/ m.what = "recv" /\ m.seq <= pud.recvId
       THEN Quiet(<<>>)
       ELSE IF ~okUpd
       THEN Quiet(<<>>)
       ELSE /\ perUser' = [perUser EXCEPT ![m.from] = [new EXCEPT !.has = TRUE]]
            /\ storeSubs' = SubsUpdate(storeSubs, m.from,
                                [RecvSeqId |-> new.recvId, ReadSeqId |-> new.readId])
            /\ Forward(m, <<>>, Info(m.seq))
            /\ UNCHANGED <<lastId, storeMsgs, pushed>>

\* Topic.run, case msg := <-t.broadcast; okStore is the outcome of the store
\* call the handler makes
TopicBroadcast(okStore) ==
    /\ broadcast # <<>>
    /\ broadcast' = Tail(broadcast)
    /\ LET m == Head(broadcast) IN
       IF m.kind = "data" THEN HandleData(m, okStore) ELSE HandleInfo(m, okStore)
    /\ req' = NoReq
    /\ UNCHANGED sideVars
    /\ UNCHANGED <<owner, accessAuth, clearId, sessions, killTimer, subs, sendFull, nreq,
                   hubVars>>

Max(a, b) == IF a > b THEN a ELSE b

\* Topic.run, case meta := <-t.meta with a del.msg that Session.del handed
\* on because the topic is in s.subs: replyDelMsg(sess, del)
DelMsg(s, before, hasList, hard, okDel) ==
    /\ Request(Req("del", s, "", <<>>))
    /\ UNCHANGED sideVars
    /\ s \in subs
    /\ LET uid   == SessUid(s)
           pud   == perUser[uid]
           hard1 == hard /\ "D" \in (pud.modeGiven \cap pud.modeWant)
       IN IF before > lastId \/ (before <= 0 /\ ~hasList)
          THEN /\ QueueOut(Emit(s, ErrMalformed))
               /\ UNCHANGED <<clearId, perUser>>
          ELSE IF before > 0 /\ (before <= clearId \/ (~hard1 /\ before <= pud.clearId))
          THEN /\ QueueOut(Emit(s, InfoNoAction))
               /\ UNCHANGED <<clearId, perUser>>
          ELSE IF before > 0 /\ ~okDel
          THEN /\ QueueOut(Emit(s, ErrUnknown))
               /\ UNCHANGED <<clearId, perUser>>
          ELSE IF hard1
          THEN /\ clearId' = before
               /\ QueueOut(Emit(s, NoErr))
               /\ UNCHANGED perUser
          ELSE /\ perUser' = [perUser EXCEPT ![uid] =
                      [pud EXCEPT !.has = TRUE,
                                  !.clearId = before,
                                  !.readId = Max(pud.readId, before),
                                  !.recvId = Max(pud.recvId, Max(pud.readId, before))]]
               /\ QueueOut(Emit(s, NoErr))
               /\ UNCHANGED clearId
    /\ UNCHANGED <<owner, accessAuth, lastId, sessions, unregq, broadcast, killTimer, subs,
                   sendFull, storeVars, hubVars>>

\* The write loop of session s falls behind: s.send fills up
BufferFills(s) ==
    /\ s \notin sendFull
    /\ sendFull' = sendFull \cup {s}
    /\ out' = NoOut
    /\ lost' = NoOut
    /\ req' = NoReq
    /\ UNCHANGED sideVars
    /\ UNCHANGED <<topicVars, subs, storeVars, hubVars, nreq>>

\* The write loop of session s catches up
BufferDrains(s) ==
    /\ s \in sendFull
    /\ sendFull' = sendFull \ {s}
    /\ out' = NoOut
    /\ lost' = NoOut
    /\ req' = NoReq
    /\ UNCHANGED sideVars
    /\ UNCHANGED <<topicVars, subs, storeVars, hubVars, nreq>>

(***************************************************************************)
(* SpecMsg and SpecPub: a group topic with the sessions of its three       *)
(* subscribers attached: u1 is the owner, u2 has the default access and    *)
(* u3 has been left without W by a manager.                                *)
(***************************************************************************)
ModeReadOnly == {"R", "P"}

InitAttached ==
    /\ perUser = [u \in Users |->
          [Pud(IF u = "u1" THEN ModeFull ELSE ModePublic,
               IF u = "u1" THEN ModeFull ELSE IF u = "u2" THEN ModePublic ELSE ModeReadOnly)
           EXCEPT !.online = 1]]
    /\ storeSubs = [u \in Users |->
          Sub(IF u = "u1" THEN ModeFull ELSE ModePublic,
              IF u = "u1" THEN ModeFull ELSE IF u = "u2" THEN ModePublic ELSE ModeReadOnly)]
    /\ owner = "u1"
    /\ accessAuth = ModePublic
    /\ lastId = 0
    /\ clearId = 0
    /\ sessions = Sessions
    /\ subs = Sessions
    /\ unregq = <<>>
    /\ broadcast = <<>>
    /\ killTimer = FALSE
    /\ sendFull = {}
    /\ out = NoOut
    /\ lost = NoOut
    /\ storeMsgs = <<>>
    /\ pushed = <<>>
    /\ HubIdle
    /\ SideIdle
    /\ nreq = 0
    /\ req = NoReq

NextMsg ==
    \/ \E s \in Sessions : SessPublish(s, TRUE, FALSE)
    \/ \E s \in Sessions, what \in {"read", "recv", "kp"}, seq \in 0..MaxSeq :
           SessNote(s, what, seq)
    \/ \E ok \in BOOLEAN : TopicBroadcast(ok)
    \/ \E s \in Sessions, before \in 0..MaxSeq, hasList, hard, ok \in BOOLEAN :
           DelMsg(s, before, hasList, hard, ok)

SpecMsg == InitAttached /\ [][NextMsg]_vars

\* The counters Topic.replyGetDesc reports to a subscriber (topic.go 962-967)
DescOf(uid) ==
    LET pud      == perUser[uid]
        ClearId  == Max(pud.clearId, clearId)
    IN [kind |-> "meta", code |-> 0, seq |-> lastId,
        SeqId     |-> lastId,
        ClearId   |-> ClearId,
        ReadSeqId |-> Max(pud.readId, ClearId),
        RecvSeqId |-> Max(pud.recvId, pud.readId)]

\* Topic.run, case meta := <-t.meta with a get.desc of an attached
\* session: replyGetDesc(sess, ...)
GetDesc(s) ==
    /\ Request(Req("get", s, "", <<"desc">>))
    /\ s \in subs
    /\ QueueOut(Emit(s, DescOf(SessUid(s))))
    /\ UNCHANGED sideVars
    /\ UNCHANGED <<topicVars, subs, sendFull, storeVars, hubVars>>

NextDesc ==
    \/ NextMsg
    \/ \E s \in Sessions : GetDesc(s)

SpecDesc == InitAttached /\ [][NextDesc]_vars

\* A get.data request: no options (req == nil), or Since, Before and Limit
NoBrowse == [nil |-> TRUE, Since |-> 0, Before |-> 0, Limit |-> 0]

MsgBrowseOpts == {NoBrowse} \cup
    [nil : {FALSE}, Since : 0..MaxSeq, Before : {0, MaxSeq}, Limit : {0, 1}]

\* msgOpts2storeOpts(req, clearId) (topic.go 1543-1559)
msgOpts2storeOpts(r, cid) ==
    IF r.nil /\ cid <= 0 THEN NoBrowse
    ELSE LET opts == [r EXCEPT !.nil = FALSE]
         IN IF cid > opts.Since THEN [opts EXCEPT !.Since = cid + 1] ELSE opts

\* The first n elements of q
Take(q, n) == SubSeq(q, 1, IF n < Len(q) THEN n ELSE Len(q))

\* The sequence q in reverse order
Reversed(q) == [i \in 1..Len(q) |-> q[Len(q) + 1 - i]]

\* store.Messages.GetAll(topic, opts): the topic's messages from opts.Since on
\* (Since shows messages starting with the value itself, topic.go 1553-1554)
\* and below opts.Before, newest first, opts.Limit of them at most
GetAll(opts) ==
    LET found == SelectSeq(Reversed(storeMsgs),
                           LAMBDA q : /\ q >= opts.Since
                                      /\ (opts.Before > 0 => q < opts.Before))
    IN IF opts.Limit > 0 THEN Take(found, opts.Limit) ELSE found

RECURSIVE EmitEach(_, _)
EmitEach(s, q) ==
    IF q = <<>> THEN <<>> ELSE Emit(s, Data(q[1])) \o EmitEach(s, Tail(q))

\* Topic.run, case meta := <-t.meta with a get.data of an attached
\* session: replyGetData(sess, id, req) (topic.go 1270-1300)
GetData(s, r, okGet) ==
    /\ Request(Req("get", s, "", <<"data">>))
    /\ s \in subs
    /\ LET opts == msgOpts2storeOpts(r, perUser[SessUid(s)].clearId)
       IN IF ~okGet
          THEN QueueOut(Emit(s, ErrUnknown))
          ELSE QueueOut(EmitEach(s, Reversed(GetAll(opts))))
    /\ UNCHANGED sideVars
    /\ UNCHANGED <<topicVars, subs, sendFull, storeVars, hubVars>>

NextData ==
    \/ NextMsg
    \/ \E s \in Sessions, r \in MsgBrowseOpts, okGet \in BOOLEAN : GetData(s, r, okGet)

SpecData == InitAttached /\ [][NextData]_vars

\* The clients of SpecPub publish MaxPub messages at most
MaxPub == 2

NextPub ==
    \/ \E s \in Sessions, hasId, noecho \in BOOLEAN :
           nreq < MaxPub /\ SessPublish(s, hasId, noecho)
    \/ \E ok \in BOOLEAN : TopicBroadcast(ok)
    \/ TopicUnreg
    \/ \E s \in Sessions : BufferFills(s)
    \/ \E s \in Sessions : BufferDrains(s)

SpecPub == InitAttached /\ [][NextPub]_vars

(***************************************************************************)
(* SpecHub: the Hub and the actors it starts for one topic name. Every     *)
(* user is a subscriber with W and every send buffer has room; the actors  *)
(* are seen through their mailboxes, their sessions and their lastId.      *)
(* An actor is "init" while topicInit loads it, "run" while Topic.run      *)
(* loops, "unreg" while its kill-timer handler waits for the Hub to take   *)
(* the topicUnreg, and "done" after Topic.run has returned. Delete and     *)
(* rehash requests are not part of the model.                              *)
(***************************************************************************)
\* The actors whose goroutine Topic.run is alive
Running == {a \in Actors : actor[a].status \in {"run", "unreg"}}

\* h.topicGet(name)
topicGet == topics

\* A message in a broadcast mailbox: id tells the messages apart
HubMsg(kind, id, s) == [kind |-> kind, id |-> id, sessFrom |-> s]

\* Session.subscribe and Hub.run, case sreg := <-h.join (hub.go 128-147):
\* the join of a session whose s.subs lacks the name (the actor enters it
\* when it handles the reg) goes to the registered actor, or starts
\* topicInit when the registry has none
HubJoin(s) ==
    /\ hubUp
    /\ joined[s] = NoActor
    /\ Request(Req("sub", s, "", <<>>))
    /\ UNCHANGED sideVars
    /\ IF topicGet = NoActor
       THEN \E a \in Actors :
               /\ actor[a].status = "none"
               /\ \A b \in Actors : actor[b].status = "none" => a <= b
               /\ actor' = [actor EXCEPT ![a] = [NoTopic EXCEPT !.status = "init",
                                                               !.sreg = s]]
       ELSE actor' = [actor EXCEPT ![topicGet].reg = Append(@, s)]
    /\ UNCHANGED <<topics, joined, hubUp, storeSeq, delivered, dropped>>
    /\ UNCHANGED <<topicVars, sessVars, storeVars>>

\* topicInit (hub.go 246-758) up to its test of h.isShutdownInProgress: ok
\* is whether the store returned the topic
TopicInit(a, ok) ==
    /\ actor[a].status = "init"
    /\ IF ok /\ ~shutdown.inProgress
       THEN actor' = [actor EXCEPT ![a].status = "loaded", ![a].lastId = storeSeq]
       ELSE actor' = [actor EXCEPT ![a] = NoTopic]
    /\ req' = NoReq
    /\ UNCHANGED sideVars
    /\ UNCHANGED <<topics, joined, hubUp, storeSeq, delivered, dropped, nreq>>
    /\ UNCHANGED <<topicVars, sessVars, storeVars>>

\* topicInit after the test (hub.go 760-768): topicPut, go t.run, and the
\* join goes to t.reg
TopicStart(a) ==
    /\ actor[a].status = "loaded"
    /\ actor' = [actor EXCEPT ![a].status = "run", ![a].reg = <<actor[a].sreg>>]
    /\ topics' = a
    /\ req' = NoReq
    /\ UNCHANGED sideVars
    /\ UNCHANGED <<joined, hubUp, storeSeq, delivered, dropped, nreq>>
    /\ UNCHANGED <<topicVars, sessVars, storeVars>>

\* killTimer.Stop() and killTimer.Reset(d) of a timer that has expired
\* leave the time it has put on killTimer.C there, or take it away: the Go
\* release the server is built with decides which
AfterStop(wasFired) == {wasFired, FALSE}

\* Topic.run, case sreg := <-t.reg (topic.go 163-184): ok is whether
\* handleSubscription accepted the session
ActorReg(a, ok) ==
    /\ actor[a].status = "run"
    /\ actor[a].reg # <<>>
    /\ \E f \in AfterStop(actor[a].fired) :
       LET s == Head(actor[a].reg) IN
       IF ok
       THEN /\ actor' = [actor EXCEPT ![a].reg = Tail(@),
                                      ![a].killTimer = FALSE,
                                      ![a].fired = f,
                                      ![a].sessions = @ \cup {s}]
            /\ joined' = [joined EXCEPT ![s] = a]
       ELSE /\ actor' = [actor EXCEPT ![a].reg = Tail(@),
                                      ![a].killTimer = (actor[a].sessions = {}),
                                      ![a].fired = f]
            /\ UNCHANGED joined
    /\ req' = NoReq
    /\ UNCHANGED sideVars
    /\ UNCHANGED <<topics, hubUp, storeSeq, delivered, dropped, nreq>>
    /\ UNCHANGED <<topicVars, sessVars, storeVars>>

\* Session.leave without unsub (session.go 304-314)
HubSessLeave(s) ==
    /\ joined[s] # NoActor
    /\ Request(Req("leave", s, "", <<>>))
    /\ UNCHANGED sideVars
    /\ joined' = [joined EXCEPT ![s] = NoActor]
    /\ actor' = [actor EXCEPT ![joined[s]].unreg = Append(@, s)]
    /\ UNCHANGED <<topics, hubUp, storeSeq, delivered, dropped>>
    /\ UNCHANGED <<topicVars, sessVars, storeVars>>

\* Topic.run, case leave := <-t.unreg (topic.go 185-233)
ActorUnreg(a) ==
    /\ actor[a].status = "run"
    /\ actor[a].unreg # <<>>
    /\ LET left == actor[a].sessions \ {Head(actor[a].unreg)} IN
       actor' = [actor EXCEPT ![a].unreg = Tail(@),
                              ![a].sessions = left,
                              ![a].killTimer = IF left = {} THEN TRUE ELSE @]
    /\ req' = NoReq
    /\ UNCHANGED sideVars
    /\ UNCHANGED <<topics, joined, hubUp, storeSeq, delivered, dropped, nreq>>
    /\ UNCHANGED <<topicVars, sessVars, storeVars>>

\* The kill timer of actor a expires: the runtime puts the time on
\* killTimer.C, which holds one value
TimerExpires(a) ==
    /\ actor[a].status = "run"
    /\ actor[a].killTimer
    /\ actor' = [actor EXCEPT ![a].killTimer = FALSE, ![a].fired = TRUE]
    /\ req' = NoReq
    /\ UNCHANGED sideVars
    /\ UNCHANGED <<topics, joined, hubUp, storeSeq, delivered, dropped, nreq>>
    /\ UNCHANGED <<topicVars, sessVars, storeVars>>

\* Topic.run, case <-killTimer.C (topic.go 413-423) up to the send to
\* hub.unreg, which is unbuffered
KillTimerFires(a) ==
    /\ actor[a].status = "run"
    /\ actor[a].fired
    /\ actor' = [actor EXCEPT ![a].status = "unreg", ![a].fired = FALSE]
    /\ req' = NoReq
    /\ UNCHANGED sideVars
    /\ UNCHANGED <<topics, joined, hubUp, storeSeq, delivered, dropped, nreq>>
    /\ UNCHANGED <<topicVars, sessVars, storeVars>>

\* Hub.run, case unreg := <-h.unreg (hub.go 199-205) with topicUnreg's case 2
\* (hub.go 944-958): the Hub takes the name of actor a, which returns; the
\* actor the registry holds for the name is unregistered and told to exit
HubTopicUnreg(a) ==
    /\ hubUp
    /\ actor[a].status = "unreg"
    /\ actor' = [b \in Actors |->
                    [actor[b] EXCEPT !.status = IF b = a THEN "done" ELSE @,
                                     !.exit = IF b = topicGet THEN TRUE ELSE @]]
    /\ topics' = NoActor
    /\ req' = NoReq
    /\ UNCHANGED sideVars
    /\ UNCHANGED <<joined, hubUp, storeSeq, delivered, dropped, nreq>>
    /\ UNCHANGED <<topicVars, sessVars, storeVars>>

\* Topic.run, case sd := <-t.exit (topic.go 425-439): the actor the Hub's
\* shutdown waits for reports on sd.done
ActorExit(a) ==
    /\ actor[a].status = "run"
    /\ actor[a].exit
    /\ actor' = [actor EXCEPT ![a].status = "done", ![a].exit = FALSE]
    /\ shutdown' = IF shutdown.awaited = a THEN [shutdown EXCEPT !.awaited = NoActor]
                   ELSE shutdown
    /\ UNCHANGED <<ver, device, subsOf, doneq, p2p, cluster, hosted, extraVars>>
    /\ req' = NoReq
    /\ UNCHANGED <<topics, joined, hubUp, storeSeq, delivered, dropped, nreq>>
    /\ UNCHANGED <<topicVars, sessVars, storeVars>>

\* Hub.run, case hubdone := <-h.shutdown (hub.go 216-238) up to the wait for
\* the registered topic: the flag is set and the topic is told to exit; with
\* an empty registry the Hub reports completion at once. Hub.run does not
\* return to its select.
HubShutdown ==
    /\ hubUp
    /\ hubUp' = FALSE
    /\ IF topicGet = NoActor
       THEN /\ shutdown' = [inProgress |-> TRUE, awaited |-> NoActor, done |-> TRUE]
            /\ UNCHANGED actor
       ELSE /\ shutdown' = [inProgress |-> TRUE, awaited |-> topicGet, done |-> FALSE]
            /\ actor' = [actor EXCEPT ![topicGet].exit = TRUE]
    /\ req' = NoReq
    /\ UNCHANGED <<ver, device, subsOf, doneq, p2p, cluster, hosted, extraVars>>
    /\ UNCHANGED <<topics, joined, storeSeq, delivered, dropped, nreq>>
    /\ UNCHANGED <<topicVars, sessVars, storeVars>>

\* Hub.run's shutdown after the awaited topic has reported (hub.go 229-238)
HubShutdownDone ==
    /\ shutdown.inProgress
    /\ shutdown.awaited = NoActor
    /\ ~shutdown.done
    /\ shutdown' = [shutdown EXCEPT !.done = TRUE]
    /\ req' = NoReq
    /\ UNCHANGED <<ver, device, subsOf, doneq, p2p, cluster, hosted, extraVars>>
    /\ UNCHANGED hubVars
    /\ UNCHANGED <<topicVars, sessVars, storeVars, nreq>>

\* Session.publish of an attached session (session.go 357-359): the send
\* to sub.broadcast waits while the mailbox is full
HubSessPublish(s) ==
    /\ joined[s] # NoActor
    /\ Len(actor[joined[s]].broadcast) < BroadcastCap
    /\ Request(Req("pub", s, "", <<>>))
    /\ UNCHANGED sideVars
    /\ actor' = [actor EXCEPT ![joined[s]].broadcast =
                                 Append(@, HubMsg("data", nreq + 1, s))]
    /\ UNCHANGED <<topics, joined, hubUp, storeSeq, delivered, dropped>>
    /\ UNCHANGED <<topicVars, sessVars, storeVars>>

\* Hub.run, case msg := <-h.route (hub.go 149-186): a message addressed to
\* the name by a sender that is not attached (an invite is a data message,
\* a presence notification is not); ok is the outcome of the Hub's own save
HubRoute(kind, ok) ==
    /\ hubUp
    /\ Request(Req("route", NoSess, "", <<>>))
    /\ UNCHANGED sideVars
    /\ IF topicGet # NoActor
       THEN /\ IF Len(actor[topicGet].broadcast) < BroadcastCap
               THEN /\ actor' = [actor EXCEPT ![topicGet].broadcast =
                                                 Append(@, HubMsg(kind, nreq + 1, NoSess))]
                    /\ UNCHANGED dropped
               ELSE /\ dropped' = dropped + 1
                    /\ UNCHANGED actor
            /\ UNCHANGED <<storeSeq, hubUp>>
       ELSE IF kind = "data"
       THEN /\ IF ok
               THEN storeSeq' = storeSeq + 1 /\ UNCHANGED hubUp
               ELSE hubUp' = FALSE /\ UNCHANGED storeSeq
            /\ UNCHANGED <<actor, dropped>>
       ELSE UNCHANGED <<actor, dropped, storeSeq, hubUp>>
    /\ UNCHANGED <<topics, joined, delivered>>
    /\ UNCHANGED <<topicVars, sessVars, storeVars>>

\* Topic.run, case msg := <-t.broadcast (topic.go 235-366) of actor a: a
\* data message the store saves gets seq lastId + 1 and goes to the
\* sessions attached to a; the store increments the topic's SeqId on every
\* message it saves (TopicUpdateOnMessage, adapter.go 83)
ActorBroadcast(a, okSave) ==
    /\ actor[a].status = "run"
    /\ actor[a].broadcast # <<>>
    /\ LET m == Head(actor[a].broadcast)
           n == actor[a].lastId + 1
       IN IF m.kind = "data" /\ okSave
          THEN /\ actor' = [actor EXCEPT ![a].broadcast = Tail(@), ![a].lastId = n]
               /\ storeSeq' = storeSeq + 1
               /\ delivered' = IF actor[a].sessions = {} THEN delivered
                               ELSE delivered \cup {<<m.id, n>>}
          ELSE /\ actor' = [actor EXCEPT ![a].broadcast = Tail(@)]
               /\ UNCHANGED <<storeSeq, delivered>>
    /\ req' = NoReq
    /\ UNCHANGED sideVars
    /\ UNCHANGED <<topics, joined, hubUp, dropped, nreq>>
    /\ UNCHANGED <<topicVars, sessVars, storeVars>>

\* The group topic loaded with its three subscribers, nobody attached, and
\* the Hub and the other parts idle
InitBase ==
    /\ perUser = [u \in Users |-> [Pud(IF u = "u1" THEN ModeFull ELSE ModePublic,
                                       IF u = "u1" THEN ModeFull ELSE ModePublic)
                                   EXCEPT !.online = 0]]
    /\ storeSubs = [u \in Users |-> Sub(IF u = "u1" THEN ModeFull ELSE ModePublic,
                                        IF u = "u1" THEN ModeFull ELSE ModePublic)]
    /\ owner = "u1"
    /\ accessAuth = ModePublic
    /\ lastId = 0
    /\ clearId = 0
    /\ sessions = {}
    /\ subs = {}
    /\ unregq = <<>>
    /\ broadcast = <<>>
    /\ killTimer = FALSE
    /\ sendFull = {}
    /\ out = NoOut
    /\ lost = NoOut
    /\ storeMsgs = <<>>
    /\ pushed = <<>>
    /\ HubIdle
    /\ CoreIdle
    /\ nreq = 0
    /\ req = NoReq

InitHub ==
    /\ InitBase
    /\ ExtraIdle

NextHub ==
    \/ \E s \in Sessions : HubJoin(s)
    \/ \E a \in Actors, ok \in BOOLEAN : TopicInit(a, ok)
    \/ \E a \in Actors : TopicStart(a)
    \/ HubShutdown
    \/ HubShutdownDone
    \/ \E a \in Actors, ok \in BOOLEAN : ActorReg(a, ok)
    \/ \E s \in Sessions : HubSessLeave(s)
    \/ \E a \in Actors : ActorUnreg(a)
    \/ \E a \in Actors : TimerExpires(a)
    \/ \E a \in Actors : KillTimerFires(a)
    \/ \E a \in Actors : HubTopicUnreg(a)
    \/ \E a \in Actors : ActorExit(a)
    \/ \E s \in Sessions : HubSessPublish(s)
    \/ \E kind \in {"data", "pres"}, ok \in BOOLEAN : HubRoute(kind, ok)
    \/ \E a \in Actors, ok \in BOOLEAN : ActorBroadcast(a, ok)

SpecHub == InitHub /\ [][NextHub]_vars

(***************************************************************************)
(* SpecSess: one client session and the requests it handles by itself: hi  *)
(* and leave. The topics enter s.subs when their actors handle the         *)
(* session's reg.                                                          *)
(***************************************************************************)
\* The session of SpecSess
TheSess == "s1"

\* The largest protocol version a client names
MaxVer == 3

\* minSupportedVersionValue (session.go 37)
MinVer == 2

\* The topic names the session uses
TopicNames == {"me", "fnd", "grp"}

NoErrCreated == Ctrl(201)

InfoNotJoined == Ctrl(304)

ErrOperationNotAllowed == Ctrl(405)

ErrAttachFirst == Ctrl(409)

ErrCommandOutOfSequence == Ctrl(409)

ErrVersionNotSupported == Ctrl(505)

\* The Version field of a {hi}: empty, or a string that parseVersion maps to
\* value (0: not a version)
HiInputs == {[empty |-> TRUE, value |-> 0]} \cup [empty : {FALSE}, value : 0..MaxVer]

\* parseVersion(msg.Hi.Version)
parseVersion(v) == v.value

\* versionCompare(a, b) < 0
VersionBelow(a, b) == a < b

\* Mutation of SameVersion: any version passes as the session's
AnyVersion(v, cur) == TRUE

\* The test of a later {hi} (session.go 395)
SameVersion(v, cur) == v.empty \/ parseVersion(v) = cur

\* The session's reply em, with nothing else changed
SessReply(em) ==
    /\ QueueOut(em)
    /\ UNCHANGED <<ver, device, subsOf, doneq>>

\* Session.hello (session.go 372-436): dev stands for the device id,
\* language and user agent of the request, okUpd for the outcome of
\* store.Devices.Update
Hello(s, v, dev, okUpd) ==
    /\ Request(Req("hi", s, "", <<v, dev>>))
    /\ IF v.empty
       THEN SessReply(Emit(s, ErrMalformed))
       ELSE IF ver = 0
       THEN IF parseVersion(v) = 0
            THEN SessReply(Emit(s, ErrMalformed))
            ELSE IF VersionBelow(parseVersion(v), MinVer)
            THEN SessReply(Emit(s, ErrVersionNotSupported))
            ELSE /\ ver' = parseVersion(v)
                 /\ device' = dev
                 /\ QueueOut(Emit(s, NoErrCreated))
                 /\ UNCHANGED <<subsOf, doneq>>
       ELSE IF SameVersion(v, ver)
       THEN IF ~okUpd
            THEN SessReply(Emit(s, ErrUnknown))
            ELSE /\ device' = dev
                 /\ QueueOut(Emit(s, NoErrCreated))
                 /\ UNCHANGED <<ver, subsOf, doneq>>
       ELSE SessReply(Emit(s, ErrCommandOutOfSequence))
    /\ UNCHANGED <<p2p, cluster, hosted, shutdown, extraVars>>
    /\ UNCHANGED <<topicVars, subs, sendFull, storeVars, hubVars>>

\* Topic.run enters the topic into sreg.sess.subs when it has accepted the
\* session's reg (topic.go 173-177); a sub needs a version (session.go 257)
SessAttached(t) ==
    /\ ver # 0
    /\ t \notin subsOf
    /\ subsOf' = subsOf \cup {t}
    /\ out' = NoOut
    /\ lost' = NoOut
    /\ req' = NoReq
    /\ UNCHANGED <<ver, device, doneq, p2p, cluster, hosted, shutdown, nreq, extraVars>>
    /\ UNCHANGED <<topicVars, subs, sendFull, storeVars, hubVars>>

\* Session.leave (session.go 291-328) for the topic named t
Leave(s, t, unsub) ==
    /\ Request(Req("leave", s, "", <<t, unsub>>))
    /\ IF ver = 0
       THEN SessReply(Emit(s, ErrCommandOutOfSequence))
       ELSE IF t \in subsOf
       THEN IF t \in {"me", "fnd"} /\ unsub
            THEN SessReply(Emit(s, ErrPermissionDenied))
            ELSE /\ subsOf' = subsOf \ {t}
                 /\ doneq' = Append(doneq, [topic |-> t, unsub |-> unsub])
                 /\ QueueOut(<<>>)
                 /\ UNCHANGED <<ver, device>>
       ELSE IF ~unsub
       THEN SessReply(Emit(s, InfoNotJoined))
       ELSE SessReply(Emit(s, ErrAttachFirst))
    /\ UNCHANGED <<p2p, cluster, hosted, shutdown, extraVars>>
    /\ UNCHANGED <<topicVars, subs, sendFull, storeVars, hubVars>>

NextSess ==
    \/ \E v \in HiInputs, dev \in {"d1", "d2"}, ok \in BOOLEAN : Hello(TheSess, v, dev, ok)
    \/ \E t \in TopicNames : SessAttached(t)
    \/ \E t \in TopicNames, unsub \in BOOLEAN : Leave(TheSess, t, unsub)

SpecSess == InitHub /\ [][NextSess]_vars

(***************************************************************************)
(* SpecP2P: the P2P topic of u1 and u2, from its creation by the first     *)
(* {sub} to its deletion: the store's topic record and subscriptions, the  *)
(* actor's cache and attached sessions, the Hub's registry entry.          *)
(***************************************************************************)
P2PSessions == {"s1", "s2"}

P2PUsers == {SessUid(s) : s \in P2PSessions}

\* The sessions of user u
SessionsOf(u) == {s \in P2PSessions : SessUid(s) = u}

\* A reply em of the P2P topic or of the Hub, the topic left as it is
P2PReply(em) ==
    /\ QueueOut(em)
    /\ UNCHANGED p2p

\* The reg handler attaches s and stops the kill timer (topic.go 163-184)
P2PAttach(t, s) == [t EXCEPT !.sessions = @ \cup {s}, !.killTimer = FALSE]

\* {sub} of a session that is not attached: Hub.run hands it to topicInit when
\* the topic is not registered (hub.go 128-147, 360-600) and to the actor's
\* reg handler otherwise (topic.go 163-184, requestSub 603-656). okStore is
\* the outcome of the store calls.
P2PJoin(s, okStore) ==
    /\ ~p2p.panicked
    /\ s \notin p2p.sessions
    /\ Request(Req("sub", s, "", <<>>))
    /\ IF ~p2p.loaded
       THEN IF ~okStore \/ (p2p.stored /\ p2p.dbSubs = {})
            THEN P2PReply(Emit(s, ErrUnknown))
            ELSE /\ p2p' = P2PAttach([p2p EXCEPT !.stored = TRUE,
                                                  !.dbSubs = P2PUsers,
                                                  !.perUser = P2PUsers,
                                                  !.loaded = TRUE], s)
                 /\ QueueOut(Emit(s, NoErr))
       ELSE IF SessUid(s) \in p2p.perUser
       THEN /\ p2p' = P2PAttach(p2p, s)
            /\ QueueOut(Emit(s, NoErr))
       ELSE IF okStore
       THEN /\ p2p' = P2PAttach([p2p EXCEPT !.dbSubs = @ \cup {SessUid(s)},
                                             !.perUser = @ \cup {SessUid(s)}], s)
            /\ QueueOut(Emit(s, NoErr))
       ELSE /\ p2p' = [p2p EXCEPT !.killTimer = (p2p.sessions = {})]
            /\ QueueOut(Emit(s, ErrUnknown))
    /\ UNCHANGED <<ver, device, subsOf, doneq, cluster, hosted, shutdown, extraVars>>
    /\ UNCHANGED <<topicVars, subs, sendFull, storeVars, hubVars>>

\* replyLeaveUnsub followed by evictUser(uid, true, sess) (topic.go 1393-1413,
\* 1456-1497) on the topic t, for the session s
P2PLeaveUnsub(t, s) ==
    [t EXCEPT !.dbSubs = @ \ {SessUid(s)},
              !.perUser = @ \ {SessUid(s)},
              !.sessions = @ \ SessionsOf(SessUid(s))]

\* The kill timer is started when the unreg handler leaves no session
\* (topic.go 229-231)
ResetIfEmpty(t) == [t EXCEPT !.killTimer = IF t.sessions = {} THEN TRUE ELSE @]

\* {leave} of an attached session (session.go 310-318) and the actor's unreg
\* handler (topic.go 185-233). A failed store.Subs.Delete ends in
\* log.Panicln.
P2PLeave(s, unsub, okStore) ==
    /\ ~p2p.panicked
    /\ s \in p2p.sessions
    /\ Request(Req("leave", s, "", <<unsub>>))
    /\ IF unsub
       THEN IF okStore
            THEN /\ p2p' = ResetIfEmpty(P2PLeaveUnsub(p2p, s))
                 /\ QueueOut(Emit(s, NoErr))
            ELSE /\ p2p' = [p2p EXCEPT !.panicked = TRUE]
                 /\ QueueOut(Emit(s, ErrUnknown))
       ELSE /\ p2p' = ResetIfEmpty([p2p EXCEPT !.sessions = @ \ {s}])
            /\ QueueOut(Emit(s, NoErr))
    /\ UNCHANGED <<ver, device, subsOf, doneq, cluster, hosted, shutdown, extraVars>>
    /\ UNCHANGED <<topicVars, subs, sendFull, storeVars, hubVars>>

\* {del what=topic} (session.go 800-807): Hub.topicUnreg with StopDeleted
\* (hub.go 832-942) and, for a registered topic, the actor's replyDelTopic
\* (topic.go 1371-1391). metaFirst: the actor takes the DelTopic request
\* before the exit request.
P2PDelTopic(s, okStore, metaFirst) ==
    /\ ~p2p.panicked
    /\ Request(Req("del", s, "", <<>>))
    /\ IF p2p.loaded
       THEN IF Cardinality(p2p.perUser) < 2
            THEN IF okStore
                 THEN /\ p2p' = [NoP2P EXCEPT !.panicked = p2p.panicked]
                      /\ QueueOut(Emit(s, NoErr) \o
                                  (IF metaFirst THEN EmitAll(p2p.sessions, NoErrEvicted)
                                                     \o Emit(s, InfoNoAction)
                                   ELSE <<>>))
                 ELSE P2PReply(Emit(s, ErrUnknown))
            ELSE IF okStore
                 THEN /\ p2p' = P2PLeaveUnsub(p2p, s)
                      /\ QueueOut(Emit(s, NoErr))
                 ELSE P2PReply(Emit(s, ErrUnknown))
       ELSE IF ~okStore
            THEN P2PReply(Emit(s, ErrUnknown))
            ELSE IF SessUid(s) \notin p2p.dbSubs
            THEN P2PReply(Emit(s, InfoNoAction))
            ELSE IF Cardinality(p2p.dbSubs) < 2
            THEN /\ p2p' = [p2p EXCEPT !.stored = FALSE, !.dbSubs = {}]
                 /\ QueueOut(Emit(s, NoErr))
            ELSE /\ p2p' = [p2p EXCEPT !.dbSubs = @ \ {SessUid(s)}]
                 /\ QueueOut(Emit(s, NoErr))
    /\ UNCHANGED <<ver, device, subsOf, doneq, cluster, hosted, shutdown, extraVars>>
    /\ UNCHANGED <<topicVars, subs, sendFull, storeVars, hubVars>>

\* The kill timer fires (topic.go 413-423) and the Hub unregisters the topic
\* (hub.go 944-958)
P2PKillTimer ==
    /\ ~p2p.panicked
    /\ p2p.loaded
    /\ p2p.killTimer
    /\ p2p' = [p2p EXCEPT !.loaded = FALSE, !.perUser = {}, !.sessions = {},
                          !.killTimer = FALSE]
    /\ out' = NoOut
    /\ lost' = NoOut
    /\ req' = NoReq
    /\ UNCHANGED <<ver, device, subsOf, doneq, cluster, hosted, shutdown, nreq, extraVars>>
    /\ UNCHANGED <<topicVars, subs, sendFull, storeVars, hubVars>>

NextP2P ==
    \/ \E s \in P2PSessions, ok \in BOOLEAN : P2PJoin(s, ok)
    \/ \E s \in P2PSessions, unsub \in BOOLEAN, ok \in BOOLEAN : P2PLeave(s, unsub, ok)
    \/ \E s \in P2PSessions, ok \in BOOLEAN, metaFirst \in BOOLEAN : P2PDelTopic(s, ok, metaFirst)
    \/ P2PKillTimer

SpecP2P == InitHub /\ [][NextP2P]_vars

(***************************************************************************)
(* SpecCluster: this node as a member of the cluster. The ring maps topic  *)
(* names to nodes; the Hub registers topics for local sessions and         *)
(* unregisters them on rehash; peers call this node's endpoints            *)
(* TopicMaster, Route and UserCacheUpdate. One actor per name: the double  *)
(* topicInit is the subject of SpecHub.                                    *)
(***************************************************************************)
\* The node names in sorted order
NodeOrder == <<"n1", "n2", "n3">>

InKeys(keys, n) == n \in keys

\* The keys of a ring: any non-empty list of nodes (part_002 931-943)
RingKeys == SUBSET Nodes \ {{}}

\* The sorted list of the ring's keys
SortedKeys(keys) == SelectSeq(NodeOrder, LAMBDA n : InKeys(keys, n))

\* ring.Signature(): a value that differs between two rings exactly when
\* their sorted node lists differ
Signature(keys) == SortedKeys(keys)

\* The hash of a topic name or of a user's me topic
HashOf(name) ==
    CASE name = "grpA" -> 0
      [] name = "grpB" -> 3
      [] OTHER -> 4

\* ring.Get(name): the node the ring with these keys maps the name to
ringGet(keys, name) == SortedKeys(keys)[(HashOf(name) % Len(SortedKeys(keys))) + 1]

\* Mutation of isRemoteTopic: every name is taken as local
NeverRemote(name) == FALSE

\* Cluster.isRemoteTopic (part_002 631-637)
isRemoteTopic(name) == ringGet(cluster.keys, name) # ThisNode

\* The sessions of this node that subscribe to the topics of SpecCluster
ClusterSessions == {"s1", "s2"}

\* Cluster.rehash(nodes) replaces the ring (part_002 931-949); the Hub is
\* then told to rehash through its unbuffered channel (hub.go 74-75), so the
\* next ring waits for the Hub
ClusterRehash(keys) ==
    /\ ~cluster.pending
    /\ keys # cluster.keys
    /\ Request(Req("ring", NoSess, "", <<>>))
    /\ cluster' = [cluster EXCEPT !.keys = keys, !.pending = TRUE]
    /\ out' = NoOut
    /\ lost' = NoOut
    /\ UNCHANGED <<ver, device, subsOf, doneq, p2p, hosted, shutdown, extraVars>>
    /\ UNCHANGED <<topicVars, subs, sendFull, storeVars, hubVars>>

\* Hub.run, case <-h.rehash (hub.go 207-214) with topicUnreg's case 2
\* (hub.go 944-958) for every registered topic the ring maps elsewhere
HubRehash ==
    /\ cluster.pending
    /\ cluster' = [cluster EXCEPT !.pending = FALSE]
    /\ hosted' = [n \in ClusterNames |->
                    IF hosted[n].registered /\ isRemoteTopic(n)
                    THEN [hosted[n] EXCEPT !.registered = FALSE, !.exit = TRUE]
                    ELSE hosted[n]]
    /\ req' = Req("rehash", NoSess, "", <<>>)
    /\ out' = NoOut
    /\ lost' = NoOut
    /\ UNCHANGED <<ver, device, subsOf, doneq, p2p, shutdown, nreq, extraVars>>
    /\ UNCHANGED <<topicVars, subs, sendFull, storeVars, hubVars>>

\* {sub} of a local session for the name n (session.go 275-288): a name the
\* ring maps elsewhere goes to that node; otherwise Hub.run either hands the
\* session to the registered actor, which attaches it (hub.go 143-146,
\* topic.go 163-184), or starts topicInit (hub.go 139-142)
ClusterJoin(n, s) ==
    /\ s \notin hosted[n].sessions
    /\ hosted[n].registered \/ hosted[n].status = "none"
    /\ Request(Req("sub", s, "", <<n>>))
    /\ IF isRemoteTopic(n)
       THEN /\ UNCHANGED hosted
            /\ QueueOut(<<>>)
       ELSE IF hosted[n].registered
       THEN /\ hosted' = [hosted EXCEPT ![n].sessions = @ \cup {s}]
            /\ QueueOut(Emit(s, NoErr))
       ELSE /\ hosted' = [hosted EXCEPT ![n].status = "init", ![n].sreg = s]
            /\ QueueOut(<<>>)
    /\ UNCHANGED <<ver, device, subsOf, doneq, p2p, cluster, shutdown, extraVars>>
    /\ UNCHANGED <<topicVars, subs, sendFull, storeVars, hubVars>>

\* topicInit registers the loaded topic and starts its actor (hub.go
\* 755-768), which attaches the session of the join (topic.go 163-184)
ClusterTopicInit(n) ==
    /\ hosted[n].status = "init"
    /\ hosted' = [hosted EXCEPT ![n] = [status |-> "run", registered |-> TRUE,
                                        exit |-> FALSE, sreg |-> NoSess,
                                        sessions |-> {hosted[n].sreg}]]
    /\ QueueOut(Emit(hosted[n].sreg, NoErr))
    /\ req' = NoReq
    /\ UNCHANGED <<ver, device, subsOf, doneq, p2p, cluster, shutdown, nreq, extraVars>>
    /\ UNCHANGED <<topicVars, subs, sendFull, storeVars, hubVars>>

\* Topic.run, case sd := <-t.exit (topic.go 425-439): the actor returns
ClusterActorExit(n) ==
    /\ hosted[n].status = "run"
    /\ hosted[n].exit
    /\ hosted' = [hosted EXCEPT ![n] = NoHosted]
    /\ out' = NoOut
    /\ lost' = NoOut
    /\ req' = NoReq
    /\ UNCHANGED <<ver, device, subsOf, doneq, p2p, cluster, shutdown, nreq, extraVars>>
    /\ UNCHANGED <<topicVars, subs, sendFull, storeVars, hubVars>>

\* The kinds of ClusterReq a proxy sends: a join, a message to broadcast, a
\* request type the master does not know
ReqTypes == {"join", "broadcast", "unknown"}

\* A call of an endpoint of this node leaves the topics and the sessions of
\* this node's clients alone
EndpointFrame ==
    /\ out' = NoOut
    /\ lost' = NoOut
    /\ UNCHANGED <<ver, device, subsOf, doneq, p2p, hosted, shutdown, extraVars>>
    /\ UNCHANGED <<topicVars, subs, sendFull, storeVars, hubVars>>

\* Cluster.TopicMaster (part_002 361-484) called by peer through
\* ClusterNode.proxyToMaster (part_002 317-325); sig is the ring signature of
\* the sender (part_002 679-683); err is what proxyToMaster returns. The
\* request is remembered by whether its signature is stale and by Gone.
TopicMaster(peer, sig, gone, reqType) ==
    /\ Request(Req("TopicMaster", NoSess, "", <<sig # Signature(cluster.keys), gone>>))
    /\ IF gone
       THEN cluster' = [cluster EXCEPT !.msess = @ \ {peer},
                                       !.rejected = FALSE, !.err = FALSE]
       ELSE IF sig # Signature(cluster.keys)
       THEN cluster' = [cluster EXCEPT !.rejected = TRUE, !.err = TRUE]
       ELSE IF reqType = "unknown"
       THEN cluster' = [cluster EXCEPT !.msess = @ \cup {peer},
                                       !.rejected = TRUE, !.err = TRUE]
       ELSE cluster' = [cluster EXCEPT !.msess = @ \cup {peer},
                                       !.enq = @ + 1,
                                       !.rejected = FALSE, !.err = FALSE]
    /\ EndpointFrame

\* Cluster.Route (part_002 495-518) called by peer through ClusterNode.route
\* (part_002 334-337), which does not look at rejected
Route(peer, sig, hasMsg) ==
    /\ Request(Req("Route", NoSess, "", <<sig # Signature(cluster.keys), FALSE>>))
    /\ IF sig # Signature(cluster.keys) \/ ~hasMsg
       THEN cluster' = [cluster EXCEPT !.rejected = TRUE, !.err = FALSE]
       ELSE cluster' = [cluster EXCEPT !.enq = @ + 1,
                                       !.rejected = FALSE, !.err = FALSE]
    /\ EndpointFrame

\* Cluster.UserCacheUpdate (part_002 524-537) called by peer through
\* Cluster.routeUserReq (part_002 585-609) for the user "usr"; a node that
\* is not this user's master receives only the notice that the user is gone
UserCacheUpdate(peer, sig, gone) ==
    /\ gone \/ ~isRemoteTopic("usr")
    /\ Request(Req("UserCacheUpdate", NoSess, "", <<sig # Signature(cluster.keys), gone>>))
    /\ cluster' = [cluster EXCEPT
                      !.evicted = IF gone THEN TRUE ELSE @,
                      !.enq = IF gone /\ isRemoteTopic("usr") THEN @ ELSE @ + 1,
                      !.rejected = FALSE, !.err = FALSE]
    /\ EndpointFrame

NextCluster ==
    \/ \E keys \in RingKeys : ClusterRehash(keys)
    \/ HubRehash
    \/ \E n \in ClusterNames, s \in ClusterSessions : ClusterJoin(n, s)
    \/ \E n \in ClusterNames : ClusterTopicInit(n)
    \/ \E n \in ClusterNames : ClusterActorExit(n)
    \/ \E peer \in Peers, keys \in RingKeys, gone \in BOOLEAN, rt \in ReqTypes :
            TopicMaster(peer, Signature(keys), gone, rt)
    \/ \E peer \in Peers, keys \in RingKeys, hasMsg \in BOOLEAN :
            Route(peer, Signature(keys), hasMsg)
    \/ \E peer \in Peers, keys \in RingKeys, gone \in BOOLEAN :
            UserCacheUpdate(peer, Signature(keys), gone)

SpecCluster == InitHub /\ [][NextCluster]_vars

(***************************************************************************)
(* SpecMode: AccessMode.MarshalText and AccessMode.UnmarshalText applied   *)
(* to every mode over the seven bits and to the wire strings clients send. *)
(***************************************************************************)
\* The bits of an AccessMode in the order of their values
ModeLetters == <<"R", "W", "P", "S", "D", "O">>

\* Every value of the seven bits
AllModes == SUBSET {"R", "W", "P", "S", "D", "O", "X"}

\* The longest wire mode string a client sends
MaxLen == 2

\* The letters of the wire mode strings, two of them also in lower case
WireChars == {"R", "W", "P", "S", "D", "O", "X", "N", "x", "n"}

\* The wire strings the clients send: the strings of mode letters, and one
\* string with a character that is no mode letter
WireInputs == UNION {[1..k -> WireChars] : k \in 0..MaxLen} \cup {<<"R", "?">>}

\* Mutation of MarshalText: the owner bit is not written
MarshalWithoutO(m) ==
    IF m = ModeNone THEN <<"N">>
    ELSE IF "X" \in m THEN <<"X">>
    ELSE SelectSeq(<<"R", "W", "P", "S", "D">>, LAMBDA c : c \in m)

\* m.MarshalText() (adapter.go 440-464)
MarshalText(m) ==
    IF m = ModeNone THEN <<"N">>
    ELSE IF "X" \in m THEN <<"X">>
    ELSE SelectSeq(ModeLetters, LAMBDA c : c \in m)

\* The mode amode is written as a wire string
Marshal ==
    /\ req' = Req("marshal", NoSess, "", <<>>)
    /\ UNCHANGED nreq
    /\ wire' = MarshalText(amode)
    /\ UNCHANGED amode
    /\ out' = NoOut
    /\ lost' = NoOut
    /\ UNCHANGED <<ver, device, subsOf, doneq, p2p, cluster, hosted, shutdown, nodeVars, tokVars, presVars, proxyVars, loginVars>>
    /\ UNCHANGED <<topicVars, subs, sendFull, storeVars, hubVars>>

\* The wire string b is parsed into amode; on an error amode is not assigned
Unmarshal(b) ==
    /\ req' = Req("unmarshal", NoSess, "", <<ParseLetters(b, 1, {}).err>>)
    /\ UNCHANGED nreq
    /\ wire' = b
    /\ amode' = UnmarshalText(b, amode)
    /\ out' = NoOut
    /\ lost' = NoOut
    /\ UNCHANGED <<ver, device, subsOf, doneq, p2p, cluster, hosted, shutdown, nodeVars, tokVars, presVars, proxyVars, loginVars>>
    /\ UNCHANGED <<topicVars, subs, sendFull, storeVars, hubVars>>

InitMode ==
    /\ InitBase
    /\ NodeIdle
    /\ TokIdle
    /\ PresIdle
    /\ ProxyIdle
    /\ LoginIdle
    /\ amode \in AllModes
    /\ wire = <<>>

NextMode ==
    \/ Marshal
    \/ \E b \in WireInputs : Unmarshal(b)

SpecMode == InitMode /\ [][NextMode]_vars

(***************************************************************************)
(* The token authenticator (auth_token.go): SpecTok.  Time is counted in   *)
(* ticks, SecTicks of them to the second; a tick is a whole number of      *)
(* milliseconds, so GenSecret's Round(time.Millisecond) changes nothing.   *)
(* HMAC-SHA256 is taken as collision free: the signature of a prefix is    *)
(* the prefix under the key, and a changed signature is another value.     *)
(***************************************************************************)
SecTicks == 2

\* The clock stops here
MaxClock == 5

\* config.ExpireIn, in seconds (ta.tokenTimeout)
ExpireIn == 2

\* config.SerialNum (ta.tokenSerialNumber)
SerialNum == 1

\* auth.LevelRoot, the highest level; the levels are the multiples of ten
LevelRoot == 30

tokenLengthDecoded == 48

\* The levels GenSecret is called with: the valid ones and one above them
LevelInputs == {0, 10, 20, LevelRoot, LevelRoot + 10}

\* The lifetimes GenSecret is called with, in ticks
LifetimeInputs == {-1, 0, 1, SecTicks, SecTicks + 1, 2 * SecTicks}

\* The regions of a token (auth_token.go 24-44)
Regions == {"uid", "expires", "authLvl", "serial", "sig"}

\* t.Unix() of a time of t ticks: its whole seconds
Unix(t) == t \div SecTicks

\* hasher.Sum(nil) over token[:tokenSignatureStart] with ta.tokenHmacSalt
Hmac(uid, expires, authLvl, serial) == <<"salt", uid, expires, authLvl, serial>>

\* ta.GenSecret(uid, authLvl, lifetime) (auth_token.go 132-153)
GenSecret(uid, authLvl, lifetime) ==
    /\ req' = Req("gen", NoSess, uid, <<>>)
    /\ LET life == IF lifetime = 0 THEN ExpireIn * SecTicks ELSE lifetime
           expires == clock + life
       IN IF lifetime < 0
          THEN /\ token' = NoToken
               /\ issue' = [at |-> clock, uid |-> uid, authLvl |-> authLvl,
                            lifetime |-> lifetime, expires |-> 0,
                            err |-> "ErrExpired", changed |-> ""]
          ELSE /\ token' = [uid |-> uid, expires |-> Unix(expires),
                            authLvl |-> authLvl, serial |-> SerialNum,
                            sig |-> Hmac(uid, Unix(expires), authLvl, SerialNum),
                            len |-> tokenLengthDecoded]
               /\ issue' = [at |-> clock, uid |-> uid, authLvl |-> authLvl,
                            lifetime |-> life, expires |-> expires,
                            err |-> "NoErr", changed |-> ""]
    /\ authRes' = NoAuth
    /\ out' = NoOut
    /\ lost' = NoOut
    /\ UNCHANGED <<clock, nreq>>
    /\ UNCHANGED <<ver, device, subsOf, doneq, p2p, cluster, hosted, shutdown, nodeVars, modeVars, presVars, proxyVars, loginVars>>
    /\ UNCHANGED <<topicVars, subs, sendFull, storeVars, hubVars>>

\* A byte of region r of the token at hand is changed on its way back; a
\* token may also come back cut short
ChangedToken(r) ==
    IF r = "uid" THEN [token EXCEPT !.uid = IF @ = "u1" THEN "u2" ELSE "u1"]
    ELSE IF r = "expires" THEN [token EXCEPT !.expires = @ + 1]
    ELSE IF r = "authLvl" THEN [token EXCEPT !.authLvl = @ + 10]
    ELSE IF r = "serial" THEN [token EXCEPT !.serial = @ + 1]
    ELSE IF r = "sig" THEN [token EXCEPT !.sig = <<"changed">> \o @]
    ELSE [token EXCEPT !.len = @ - 1]

Change(r) ==
    /\ token # NoToken
    /\ issue.changed = ""
    /\ req' = Req("change", NoSess, "", <<r>>)
    /\ token' = ChangedToken(r)
    /\ issue' = [issue EXCEPT !.changed = r]
    /\ authRes' = NoAuth
    /\ out' = NoOut
    /\ lost' = NoOut
    /\ UNCHANGED <<clock, nreq>>
    /\ UNCHANGED <<ver, device, subsOf, doneq, p2p, cluster, hosted, shutdown, nodeVars, modeVars, presVars, proxyVars, loginVars>>
    /\ UNCHANGED <<topicVars, subs, sendFull, storeVars, hubVars>>

\* Mutation of AuthResult: the signature is not compared
AuthUnsigned(tok, now) ==
    IF tok.len < tokenLengthDecoded \/ tok.authLvl < 0 \/ tok.authLvl > LevelRoot
       \/ tok.serial # SerialNum
    THEN [at |-> now, uid |-> "", authLvl |-> 0, expires |-> 0, err |-> "ErrMalformed"]
    ELSE IF tok.expires * SecTicks < now + SecTicks
    THEN [at |-> now, uid |-> "", authLvl |-> 0, expires |-> 0, err |-> "ErrExpired"]
    ELSE [at |-> now, uid |-> tok.uid, authLvl |-> tok.authLvl,
          expires |-> tok.expires * SecTicks, err |-> "NoErr"]

\* What ta.Authenticate(token) returns at time now (auth_token.go 91-129)
AuthResult(tok, now) ==
    IF tok.len < tokenLengthDecoded
    THEN [at |-> now, uid |-> "", authLvl |-> 0, expires |-> 0, err |-> "ErrMalformed"]
    ELSE IF tok.authLvl < 0 \/ tok.authLvl > LevelRoot
    THEN [at |-> now, uid |-> "", authLvl |-> 0, expires |-> 0, err |-> "ErrMalformed"]
    ELSE IF tok.serial # SerialNum
    THEN [at |-> now, uid |-> "", authLvl |-> 0, expires |-> 0, err |-> "ErrMalformed"]
    ELSE IF tok.sig # Hmac(tok.uid, tok.expires, tok.authLvl, tok.serial)
    THEN [at |-> now, uid |-> "", authLvl |-> 0, expires |-> 0, err |-> "ErrFailed"]
    ELSE IF tok.expires * SecTicks < now + SecTicks
    THEN [at |-> now, uid |-> "", authLvl |-> 0, expires |-> 0, err |-> "ErrExpired"]
    ELSE [at |-> now, uid |-> tok.uid, authLvl |-> tok.authLvl,
          expires |-> tok.expires * SecTicks, err |-> "NoErr"]

\* ta.Authenticate of the token at hand
Authenticate ==
    /\ token # NoToken
    /\ req' = Req("auth", NoSess, "", <<>>)
    /\ authRes' = AuthResult(token, clock)
    /\ out' = NoOut
    /\ lost' = NoOut
    /\ UNCHANGED <<clock, token, issue, nreq>>
    /\ UNCHANGED <<ver, device, subsOf, doneq, p2p, cluster, hosted, shutdown, nodeVars, modeVars, presVars, proxyVars, loginVars>>
    /\ UNCHANGED <<topicVars, subs, sendFull, storeVars, hubVars>>

\* The system clock advances by a tick
Tick ==
    /\ clock < MaxClock
    /\ clock' = clock + 1
    /\ req' = NoReq
    /\ out' = NoOut
    /\ lost' = NoOut
    /\ UNCHANGED <<token, issue, authRes, nreq>>
    /\ UNCHANGED <<ver, device, subsOf, doneq, p2p, cluster, hosted, shutdown, nodeVars, modeVars, presVars, proxyVars, loginVars>>
    /\ UNCHANGED <<topicVars, subs, sendFull, storeVars, hubVars>>

InitTok == InitHub

NextTok ==
    \/ \E u \in {"u1", "u2"}, l \in LevelInputs, d \in LifetimeInputs : GenSecret(u, l, d)
    \/ \E r \in Regions \cup {"len"} : Change(r)
    \/ Authenticate
    \/ Tick

SpecTok == InitTok /\ [][NextTok]_vars

(***************************************************************************)
(* Session.login (session.go 439-510): SpecLogin.  The session of SpecSess *)
(* says hi and logs in with a token of SpecTok or with a basic secret.     *)
(***************************************************************************)
ErrAuthFailed == Ctrl(401)

ErrAuthUnknownScheme == Ctrl(401)

ErrAlreadyAuthenticated == Ctrl(409)

\* msg.Login.Scheme: the two registered schemes and one that is not
Schemes == {"token", "basic", "other"}

\* What the Authenticate of the basic scheme returns for the secret: it
\* issues no expiry
BasicResults ==
    {[at |-> 0, uid |-> "", authLvl |-> 0, expires |-> 0, err |-> e] :
        e \in {"ErrMalformed", "ErrInternal", "ErrFailed"}}
    \cup {[at |-> 0, uid |-> "u1", authLvl |-> 20, expires |-> 0, err |-> "NoErr"]}

\* How far the clock moves between Authenticate and time.Until, in ticks
MaxLater == 3

\* GenSecret returns an error (auth_token.go 138-142)
GenSecretFails(lifetime) == lifetime < 0

\* Session.login(msg): res is what handler.Authenticate returned, later the
\* time that passes before time.Until(expires) reads the clock
Login(s, scheme, res, later) ==
    /\ Request(Req("login", s, "", <<scheme>>))
    /\ clock + later <= MaxClock
    /\ clock' = clock + later
    /\ LET tokenLifetime == IF res.expires # 0 THEN res.expires - (clock + later) ELSE 0
       IN IF ver = 0
          THEN /\ QueueOut(Emit(s, ErrCommandOutOfSequence))
               /\ UNCHANGED auth
          ELSE IF auth.uid # ""
          THEN /\ QueueOut(Emit(s, ErrAlreadyAuthenticated))
               /\ UNCHANGED auth
          ELSE IF scheme \notin {"token", "basic"}
          THEN /\ QueueOut(Emit(s, ErrAuthUnknownScheme))
               /\ UNCHANGED auth
          ELSE IF res.err = "ErrMalformed"
          THEN /\ QueueOut(Emit(s, ErrMalformed))
               /\ UNCHANGED auth
          ELSE IF res.err = "ErrInternal"
          THEN /\ QueueOut(Emit(s, ErrUnknown))
               /\ UNCHANGED auth
          ELSE IF res.uid = ""
          THEN /\ QueueOut(Emit(s, ErrAuthFailed))
               /\ UNCHANGED auth
          ELSE /\ auth' = [uid |-> res.uid, authLvl |-> res.authLvl]
               /\ IF GenSecretFails(tokenLifetime)
                  THEN QueueOut(Emit(s, ErrAuthFailed))
                  ELSE QueueOut(Emit(s, NoErr))
    /\ UNCHANGED <<token, issue, authRes, metaq>>
    /\ UNCHANGED <<ver, device, subsOf, doneq, p2p, cluster, hosted, shutdown, nodeVars, modeVars, presVars,
                   proxyVars>>
    /\ UNCHANGED <<topicVars, subs, sendFull, storeVars, hubVars>>

\* The login requests: with the token at hand, or with a basic secret
LoginWith(s, scheme, later) ==
    IF scheme = "token"
    THEN Login(s, scheme, AuthResult(token, clock), later)
    ELSE \E res \in BasicResults : Login(s, scheme, res, later)

InitLogin == InitHub

NextLogin ==
    \/ \E v \in {[empty |-> FALSE, value |-> MinVer]} : Hello(TheSess, v, "d1", TRUE)
    \/ \E u \in {"u1"}, l \in {20}, d \in LifetimeInputs : GenSecret(u, l, d)
    \/ \E r \in {"sig", "serial"} : Change(r)
    \/ Tick
    \/ \E scheme \in Schemes, later \in 0..MaxLater : LoginWith(TheSess, scheme, later)

SpecLogin == InitLogin /\ [][NextLogin]_vars

(***************************************************************************)
(* Session.set and Session.del (session.go 716-813): SpecSet.              *)
(***************************************************************************)
\* msg.Set with some of Desc, Sub and Tags; msg.Del.What
SetInputs == SUBSET {"desc", "sub", "tags"}

DelInputs == {"", "msg", "topic", "sub", "bogus"}

\* parseMsgClientDel(what) (datamodel.go 219-235); "" stands for 0
parseMsgClientDel(what) ==
    IF what \in {"", "msg"} THEN "msg"
    ELSE IF what \in {"topic", "sub", "user", "cred"} THEN what
    ELSE ""

\* A request handed on by the session
Handed(to, op, t, what) == [to |-> to, op |-> op, topic |-> t, what |-> what]

\* What Session.set and Session.del leave alone
SetFrame ==
    /\ UNCHANGED <<ver, device, subsOf, doneq, auth>>
    /\ UNCHANGED <<p2p, cluster, hosted, shutdown, nodeVars, modeVars, tokVars, presVars, proxyVars>>
    /\ UNCHANGED <<topicVars, subs, sendFull, storeVars, hubVars>>

\* Session.set (session.go 716-762) for the topic named t
Set(s, t, what) ==
    /\ Request(Req("set", s, "", <<t, what>>))
    /\ IF ver = 0
       THEN /\ QueueOut(Emit(s, ErrCommandOutOfSequence))
            /\ UNCHANGED metaq
       ELSE IF t \in subsOf
       THEN /\ QueueOut(IF what = {} THEN Emit(s, ErrMalformed) ELSE <<>>)
            /\ metaq' = Append(metaq, Handed("topic", "set", t, what))
       ELSE IF isRemoteTopic(t)
       THEN /\ QueueOut(<<>>)
            /\ metaq' = Append(metaq, Handed("cluster", "set", t, what))
       ELSE /\ QueueOut(Emit(s, ErrPermissionDenied))
            /\ UNCHANGED metaq
    /\ SetFrame

\* Session.del (session.go 764-813) for the topic named t
Del(s, t, w) ==
    /\ Request(Req("del", s, "", <<t, w>>))
    /\ LET what == parseMsgClientDel(w)
           first == IF what = "" THEN Emit(s, ErrMalformed) ELSE <<>>
       IN IF ver = 0
          THEN /\ QueueOut(Emit(s, ErrCommandOutOfSequence))
               /\ UNCHANGED metaq
          ELSE IF t \in subsOf /\ what # "topic"
          THEN /\ QueueOut(first)
               /\ metaq' = Append(metaq, Handed("topic", "del", t, what))
          ELSE IF t \notin subsOf /\ isRemoteTopic(t)
          THEN /\ QueueOut(first)
               /\ metaq' = Append(metaq, Handed("cluster", "del", t, what))
          ELSE IF what = "topic"
          THEN /\ QueueOut(first)
               /\ metaq' = Append(metaq, Handed("hub", "del", t, what))
          ELSE /\ QueueOut(first \o Emit(s, ErrAttachFirst))
               /\ UNCHANGED metaq
    /\ SetFrame

\* The topics the session of SpecSet addresses: one this node hosts, one remote
SetTopics == {"grpA", "me"}

InitSet == InitHub

NextSet ==
    \/ \E v \in {[empty |-> FALSE, value |-> MinVer]} : Hello(TheSess, v, "d1", TRUE)
    \/ \E t \in SetTopics : SessAttached(t)
    \/ \E t \in SetTopics, what \in SetInputs : Set(TheSess, t, what)
    \/ \E t \in SetTopics, w \in DelInputs : Del(TheSess, t, w)

SpecSet == InitSet /\ [][NextSet]_vars

(***************************************************************************)
(* The connection to one remote node (part_002 197-270): SpecNode. The     *)
(* reconnect goroutines and the goroutines inside n.call take the steps    *)
(* that n.lock separates.                                                  *)
(***************************************************************************)
NodeFrame ==
    /\ out' = NoOut
    /\ lost' = NoOut
    /\ UNCHANGED <<nreq, mux>>
    /\ UNCHANGED <<ver, device, subsOf, doneq, p2p, cluster, hosted, shutdown, modeVars, tokVars,
                   presVars, proxyVars, loginVars>>
    /\ UNCHANGED <<topicVars, subs, sendFull, storeVars, hubVars>>

\* The reconnect goroutines that have been started and have not returned
LoopsRunning(n) == {i \in Loops : n.loop[i] # "none"}

\* go n.reconnect(): a new goroutine at the top of reconnect
GoReconnect(n) ==
    LET i == CHOOSE x \in Loops : n.loop[x] = "none"
    IN [n EXCEPT !.loop[i] = "start"]

\* Cluster.start (part_002 879-908): one reconnect goroutine per node
ClusterStart ==
    /\ ~cnode.started
    /\ cnode' = GoReconnect([cnode EXCEPT !.started = TRUE])
    /\ req' = Req("node.start", NoSess, "", <<>>)
    /\ NodeFrame

\* ClusterNode.reconnect, the section under n.lock that avoids parallel
\* reconnection (part_002 200-207)
ReconnectEnter(i) ==
    /\ cnode.loop[i] = "start"
    /\ cnode' = IF cnode.reconnecting
                THEN [cnode EXCEPT !.loop[i] = "none"]
                ELSE [cnode EXCEPT !.reconnecting = TRUE, !.loop[i] = "dial"]
    /\ req' = Req("node.enter", NoSess, "", <<i>>)
    /\ NodeFrame

\* ClusterNode.reconnect, rpc.Dial and what follows (part_002 211-227)
ReconnectDial(i, ok) ==
    /\ cnode.loop[i] = "dial"
    /\ cnode' = IF ok
                THEN [cnode EXCEPT !.connected = TRUE, !.reconnecting = FALSE,
                                   !.loop[i] = "none"]
                ELSE [cnode EXCEPT !.loop[i] = "wait"]
    /\ req' = Req("node.dial", NoSess, "", <<i, ok>>)
    /\ NodeFrame

\* ClusterNode.reconnect, case <-reconnTicker.C (part_002 231-232)
ReconnectTick(i) ==
    /\ cnode.loop[i] = "wait"
    /\ cnode' = [cnode EXCEPT !.loop[i] = "dial"]
    /\ req' = Req("node.tick", NoSess, "", <<i>>)
    /\ NodeFrame

\* ClusterNode.reconnect, case <-n.done (part_002 233-246)
ReconnectDone(i) ==
    /\ cnode.loop[i] = "wait"
    /\ cnode.done > 0
    /\ cnode' = [cnode EXCEPT !.done = 0, !.connected = FALSE, !.reconnecting = FALSE,
                              !.loop[i] = "none"]
    /\ req' = Req("node.done", NoSess, "", <<i>>)
    /\ NodeFrame

\* Mutation of IssuesRPC: the call goes out whatever n.connected is
IssuesAlways(n) == TRUE

\* ClusterNode.call, the test of n.connected (part_002 251-253)
IssuesRPC(n) == n.connected

\* ClusterNode.call up to n.endpoint.Call (part_002 250-255)
NodeCall(c) ==
    /\ cnode.started
    /\ cnode.call[c] = "idle"
    /\ cnode' = IF IssuesRPC(cnode) THEN [cnode EXCEPT !.call[c] = "rpc"] ELSE cnode
    /\ req' = Req("node.call", NoSess, "", <<c, IssuesRPC(cnode)>>)
    /\ NodeFrame

\* ClusterNode.call after n.endpoint.Call has returned (part_002 255-269)
NodeCallReturns(c, ok) ==
    /\ cnode.call[c] = "rpc"
    /\ cnode' = IF ok \/ ~cnode.connected
                THEN [cnode EXCEPT !.call[c] = "idle"]
                ELSE GoReconnect([cnode EXCEPT !.call[c] = "idle", !.connected = FALSE])
    /\ req' = Req("node.return", NoSess, "", <<c, ok>>)
    /\ NodeFrame

\* Cluster.shutdown (part_002 910-927): n.done <- true; n.done holds one
\* value (part_002 850)
ClusterShutdown ==
    /\ cnode.started
    /\ ~cnode.shut
    /\ cnode' = [cnode EXCEPT !.shut = TRUE, !.done = 1]
    /\ req' = Req("node.shutdown", NoSess, "", <<>>)
    /\ NodeFrame

InitNode == InitHub

NextNode ==
    \/ ClusterStart
    \/ \E i \in Loops : ReconnectEnter(i)
    \/ \E i \in Loops, ok \in BOOLEAN : ReconnectDial(i, ok)
    \/ \E i \in Loops : ReconnectTick(i)
    \/ \E i \in Loops : ReconnectDone(i)
    \/ \E c \in Callers : NodeCall(c)
    \/ \E c \in Callers, ok \in BOOLEAN : NodeCallReturns(c, ok)
    \/ ClusterShutdown

SpecNode == InitNode /\ [][NextNode]_vars

(***************************************************************************)
(* The multiplexing session of one topic and one proxy node on the master  *)
(* (part_002 361-400, 975-1055): SpecMux. The rpc server runs every        *)
(* TopicMaster request in a goroutine of its own and TopicMaster takes no  *)
(* lock, so a handler is two steps: sessionStore.Get, then the rest.       *)
(***************************************************************************)
\* The master creates MaxMux multiplexing sessions at most
MaxMux == 3

MuxFrame ==
    /\ out' = NoOut
    /\ lost' = NoOut
    /\ UNCHANGED <<nreq, cnode>>
    /\ UNCHANGED <<ver, device, subsOf, doneq, p2p, cluster, hosted, shutdown, modeVars, tokVars,
                   presVars, proxyVars, loginVars>>
    /\ UNCHANGED <<topicVars, subs, sendFull, storeVars, hubVars>>

\* TopicMaster up to msess := globals.sessionStore.Get(msid) (part_002
\* 362-372); gone is msg.Gone, stale a signature that is not the ring's
MasterGet(x, gone, stale) ==
    /\ mux.h[x].pc = "idle"
    /\ mux' = [mux EXCEPT !.h[x] = [pc |-> "got", gone |-> gone, stale |-> stale,
                                    msess |-> mux.stored]]
    /\ req' = Req("mux.get", NoSess, "", <<x, gone, stale>>)
    /\ MuxFrame

\* TopicMaster from the test of msg.Gone on (part_002 374-400): the session
\* found is told to stop and its id taken out of node.msess; or a session is
\* created, recorded in node.msess and its write loop started
MasterRest(x) ==
    /\ mux.h[x].pc = "got"
    /\ LET me0 == mux.h[x]
           done == [mux EXCEPT !.h[x] = IdleHandler]
       IN IF me0.gone
          THEN mux' = IF me0.msess # 0
                      THEN [done EXCEPT !.stop = @ \cup {me0.msess}, !.inMsess = FALSE]
                      ELSE done
          ELSE IF me0.stale
          THEN mux' = done
          ELSE IF me0.msess = 0
          THEN /\ mux.made < MaxMux
               /\ mux' = [done EXCEPT !.made = @ + 1, !.stored = mux.made + 1,
                                      !.alive = @ \cup {mux.made + 1},
                                      !.inMsess = TRUE]
          ELSE mux' = done
    /\ req' = Req("mux.rest", NoSess, "", <<x>>)
    /\ MuxFrame

\* The deferred calls of clusterWriteLoop (part_002 996-1000):
\* sessionStore.Delete takes the session's id out of the store
WriteLoopReturns(m, id) ==
    [m EXCEPT !.alive = @ \ {id}, !.stop = @ \ {id}, !.stored = 0]

\* clusterWriteLoop, case msg := <-sess.stop with a nil msg (part_002
\* 1040-1044)
WriteLoopStop(id) ==
    /\ id \in mux.alive
    /\ id \in mux.stop
    /\ mux' = WriteLoopReturns(mux, id)
    /\ req' = Req("mux.stop", NoSess, "", <<id>>)
    /\ MuxFrame

\* clusterWriteLoop returns because masterToProxy failed (part_002
\* 1035-1038)
WriteLoopFails(id) ==
    /\ id \in mux.alive
    /\ mux' = WriteLoopReturns(mux, id)
    /\ req' = Req("mux.fail", NoSess, "", <<id>>)
    /\ MuxFrame

\* Cluster.garbageCollectProxySessions for the failed proxy node (part_002
\* 975-991)
garbageCollectProxySessions ==
    /\ mux.inMsess
    /\ mux' = [mux EXCEPT !.inMsess = FALSE,
                          !.stop = IF mux.stored # 0 THEN @ \cup {mux.stored} ELSE @]
    /\ req' = Req("mux.gc", NoSess, "", <<>>)
    /\ MuxFrame

InitMux == InitHub

NextMux ==
    \/ \E x \in Handlers, gone, stale \in BOOLEAN : MasterGet(x, gone, stale)
    \/ \E x \in Handlers : MasterRest(x)
    \/ \E id \in 1..MaxMux : WriteLoopStop(id)
    \/ \E id \in 1..MaxMux : WriteLoopFails(id)
    \/ garbageCollectProxySessions

SpecMux == InitMux /\ [][NextMux]_vars

(***************************************************************************)
(* Presence between the me topics of two users (pres.go): SpecPres.  A me  *)
(* topic comes online when the Hub has created it for the user's first     *)
(* session and goes offline when its kill timer fires.                     *)
(***************************************************************************)
\* The capacity of hub.route and of t.broadcast
RouteCap == 3

PresCap == 2

\* The most presence messages the Hub drops
MaxDrop == 1

\* {pres} routed to the me topic of user to (pres.go 181-185, 207-211)
PresMsg(to, src, what, cmd, wantReply) ==
    [to |-> to, src |-> src, what |-> what, cmd |-> cmd, wantReply |-> wantReply]

PresKnown == {"on", "off", "gone", "?unkn"}

\* t.presProcReq(fromUserID, what+cmd, wantReply) of a me topic whose entry
\* for fromUserID is psd (pres.go 82-197): the entry afterwards
ProcPsd(psd, what, cmd0) ==
    LET online == what = "on"
        cmd == IF what = "gone" THEN "rem" ELSE cmd0
    IN IF what \notin PresKnown THEN psd
       ELSE IF psd.has
       THEN IF cmd = "rem" THEN NoPsd
            ELSE [has |-> TRUE, online |-> online,
                  enabled |-> IF cmd = "en" THEN TRUE
                              ELSE IF cmd = "dis" THEN FALSE
                              ELSE psd.enabled]
       ELSE IF cmd # "rem"
       THEN [has |-> TRUE, online |-> online, enabled |-> cmd = "en"]
       ELSE psd

\* Whether presProcReq replies to the sender (pres.go 180)
ProcReplies(what, wantReply) ==
    what \in PresKnown /\ (what = "on" \/ what = "?unkn") /\ wantReply

\* The reply of presProcReq (pres.go 181-185)
ProcReply(t, psd, from, what, cmd0) ==
    LET cmd == IF what = "gone" THEN "rem" ELSE cmd0
    IN PresMsg(from, t, IF psd.has /\ cmd = "rem" THEN "off" ELSE "on",
               IF psd.has /\ cmd = "rem" THEN "rem" ELSE "",
               what = "?unkn")

\* presProcReq assigns to t.perSubs, a nil map until loadContacts has run:
\* the assignment panics (pres.go 49, 169)
ProcPanics(t, what, cmd0) ==
    /\ me[t].nilSubs
    /\ what \in PresKnown
    /\ (IF what = "gone" THEN "rem" ELSE cmd0) # "rem"

\* t.presUsersOfInterest(what, ua) (pres.go 204-215)
presUsersOfInterest(t, what) ==
    <<PresMsg(Contact(t), t, what, "", what = "on")>>

\* What the steps of SpecPres leave alone
PresFrame ==
    /\ out' = NoOut
    /\ lost' = NoOut
    /\ UNCHANGED nreq
    /\ UNCHANGED <<ver, device, subsOf, doneq, p2p, cluster, hosted, shutdown, nodeVars, modeVars, tokVars, proxyVars, loginVars>>
    /\ UNCHANGED <<topicVars, subs, sendFull, storeVars, hubVars>>

\* topicInit for the first session of user u on me (hub.go 246-768): the
\* topic is registered and its goroutine started; the join is in t.reg
MeInit(u) ==
    /\ ~crashed
    /\ ~me[u].reg
    /\ me[u].run = "none"
    /\ me' = [me EXCEPT ![u] = [NoMe EXCEPT !.reg = TRUE, !.run = "init",
                                            !.offPending = me[u].offPending]]
    /\ req' = Req("me.init", NoSess, u, <<>>)
    /\ UNCHANGED <<proute, crashed, pdropped>>
    /\ PresFrame

\* handleSubscription of the join that loaded the topic (topic.go 480-488):
\* loadContacts (pres.go 55-70), then "on" to the users of interest
MeReg(u) ==
    /\ ~crashed
    /\ me[u].run = "init"
    /\ Len(proute) < RouteCap
    /\ me' = [me EXCEPT ![u].run = "on", ![u].nilSubs = FALSE,
                        ![u].perSubs = [has |-> TRUE, online |-> FALSE, enabled |-> TRUE]]
    /\ proute' = proute \o presUsersOfInterest(u, "on")
    /\ req' = Req("me.reg", NoSess, u, <<>>)
    /\ UNCHANGED <<crashed, pdropped>>
    /\ PresFrame

\* Topic.run, case msg := <-t.broadcast with msg.Pres (topic.go 280-285)
MeBroadcast(u) ==
    /\ ~crashed
    /\ me[u].run \in {"init", "on"}
    /\ me[u].broadcast # <<>>
    /\ LET m == Head(me[u].broadcast)
           replies == ProcReplies(m.what, m.wantReply)
       IN /\ replies => Len(proute) < RouteCap
          /\ IF ProcPanics(u, m.what, m.cmd)
             THEN /\ crashed' = TRUE
                  /\ UNCHANGED <<me, proute>>
             ELSE /\ me' = [me EXCEPT ![u].broadcast = Tail(@),
                                      ![u].perSubs = ProcPsd(@, m.what, m.cmd)]
                  /\ proute' = IF replies
                               THEN Append(proute, ProcReply(u, me[u].perSubs, m.src,
                                                             m.what, m.cmd))
                               ELSE proute
                  /\ UNCHANGED crashed
          /\ req' = Req("me.pres", NoSess, u, <<m.what>>)
    /\ UNCHANGED pdropped
    /\ PresFrame

\* Topic.run, case <-killTimer.C of a me topic (topic.go 413-423): the
\* goroutine waits on hub.unreg, which has no buffer
MeKillTimer(u) ==
    /\ ~crashed
    /\ me[u].run = "on"
    /\ me' = [me EXCEPT ![u].run = "unreg"]
    /\ req' = Req("me.kill", NoSess, u, <<>>)
    /\ UNCHANGED <<proute, crashed, pdropped>>
    /\ PresFrame

\* Hub.run, case unreg := <-h.unreg (hub.go 199-204): the topic is taken out
\* of the registry; its goroutine goes on to announce "off"
MeUnreg(u) ==
    /\ ~crashed
    /\ me[u].run = "unreg"
    /\ me' = [me EXCEPT ![u] = [NoMe EXCEPT !.offPending = TRUE]]
    /\ req' = Req("me.unreg", NoSess, u, <<>>)
    /\ UNCHANGED <<proute, crashed, pdropped>>
    /\ PresFrame

\* The goroutine of the unregistered topic announces "off" and returns
\* (topic.go 417-422)
MeOff(u) ==
    /\ ~crashed
    /\ me[u].offPending
    /\ Len(proute) < RouteCap
    /\ me' = [me EXCEPT ![u].offPending = FALSE]
    /\ proute' = proute \o presUsersOfInterest(u, "off")
    /\ req' = Req("me.off", NoSess, u, <<>>)
    /\ UNCHANGED <<crashed, pdropped>>
    /\ PresFrame

\* Hub.run, case msg := <-h.route with msg.Pres (hub.go 149-186)
HubRoutePres ==
    /\ ~crashed
    /\ proute # <<>>
    /\ LET m == Head(proute)
       IN /\ IF me[m.to].reg
             THEN IF Len(me[m.to].broadcast) < PresCap
                  THEN /\ me' = [me EXCEPT ![m.to].broadcast = Append(@, m)]
                       /\ UNCHANGED pdropped
                  ELSE /\ pdropped < MaxDrop
                       /\ pdropped' = pdropped + 1
                       /\ UNCHANGED me
             ELSE UNCHANGED <<me, pdropped>>
          /\ req' = Req("route", NoSess, m.to, <<m.what>>)
    /\ proute' = Tail(proute)
    /\ UNCHANGED crashed
    /\ PresFrame

InitPres == InitHub

NextPres ==
    \/ \E u \in PresUsers : MeInit(u)
    \/ \E u \in PresUsers : MeReg(u)
    \/ \E u \in PresUsers : MeBroadcast(u)
    \/ \E u \in PresUsers : MeKillTimer(u)
    \/ \E u \in PresUsers : MeUnreg(u)
    \/ \E u \in PresUsers : MeOff(u)
    \/ HubRoutePres

SpecPres == InitPres /\ [][NextPres]_vars

\* The p2p topic of SpecProbe probes MaxProbe times at most
MaxProbe == 2

\* t.presSingleUserOffline(uid, "?unkn+en", ...) of the p2p topic of u and
\* its contact (pres.go 365-392): the probe goes to the me topic of the
\* contact with u's name as its source and wantReply set
presSingleUserOffline(u, what, cmd) ==
    PresMsg(Contact(u), u, what, cmd, what = "?unkn")

Probe(u) ==
    /\ ~crashed
    /\ nreq < MaxProbe
    /\ nreq' = nreq + 1
    /\ Len(proute) < RouteCap
    /\ proute' = Append(proute, presSingleUserOffline(u, "?unkn", "en"))
    /\ req' = Req("probe", NoSess, u, <<>>)
    /\ out' = NoOut
    /\ lost' = NoOut
    /\ UNCHANGED <<me, crashed, pdropped>>
    /\ UNCHANGED <<ver, device, subsOf, doneq, p2p, cluster, hosted, shutdown, nodeVars, modeVars, tokVars, proxyVars, loginVars>>
    /\ UNCHANGED <<topicVars, subs, sendFull, storeVars, hubVars>>

\* The me topics stay loaded in SpecProbe
NextProbe ==
    \/ \E u \in PresUsers : MeInit(u)
    \/ \E u \in PresUsers : MeReg(u)
    \/ \E u \in PresUsers : MeBroadcast(u)
    \/ HubRoutePres
    \/ \E u \in PresUsers : Probe(u)

SpecProbe == InitPres /\ [][NextProbe]_vars

(***************************************************************************)
(* A topic of a remote master seen through its proxy (part_002): SpecProxy.*)
(* The master topic sends through the multiplexing session; what a local   *)
(* topic would send to the same sessions is kept next to it in lout.       *)
(***************************************************************************)
\* The most messages the master topic sends
MaxEmit == 3

\* The kinds of message that answer a request of each type, and the kinds
\* that are broadcast
ResponseKinds(reqType) ==
    IF reqType = "Join" THEN {"ctrl", "meta", "data"}
    ELSE IF reqType = "Leave" THEN {"ctrl"}
    ELSE IF reqType = "Meta" THEN {"ctrl", "meta", "data"}
    ELSE {"ctrl"}

BroadcastKinds == {"data", "pres", "info"}

\* A server message in msess.send: srvMsg.sess is the copy of the session
\* that TopicMaster made for the request (part_002 401-418), with the type
\* of the request in proxyReq; NoSess when the message has no session
SrvMsg(kind, id, sess, proxyReq) ==
    [kind |-> kind, id |-> id, sess |-> sess, proxyReq |-> proxyReq]

\* What a session is sent: the message without what belongs to the cluster
Envelope(m) == [kind |-> m.kind, id |-> m.id]

\* Mutation of OrigSid: every response is addressed to its session
OrigSidOfSess(srvMsg) ==
    IF srvMsg.sess = NoSess THEN "*" ELSE srvMsg.sess

\* response.OrigSid as clusterWriteLoop sets it (part_002 1011-1031)
OrigSid(srvMsg) ==
    IF srvMsg.sess = NoSess THEN "*"
    ELSE IF srvMsg.proxyReq \in {"Broadcast", "None"}
            /\ srvMsg.kind \in BroadcastKinds
    THEN "*"
    ELSE srvMsg.sess

\* What the steps of SpecProxy leave alone
ProxyFrame ==
    /\ out' = NoOut
    /\ lost' = NoOut
    /\ UNCHANGED nreq
    /\ UNCHANGED <<ver, device, subsOf, doneq, p2p, cluster, hosted, shutdown, nodeVars, modeVars, tokVars,
                   presVars, loginVars>>
    /\ UNCHANGED <<topicVars, subs, sendFull, storeVars, hubVars>>

\* The sessions attached once session s has been answered kind to a
\* request of type reqType: a ctrl to a join attaches, one to a leave detaches
AttachedAfter(att, s, reqType, kind) ==
    IF kind = "ctrl" /\ reqType = "Join" THEN att \cup {s}
    ELSE IF kind = "ctrl" /\ reqType = "Leave" THEN att \ {s}
    ELSE att

\* The master topic answers the request of type reqType that TopicMaster
\* handed it for session s (part_002 422-449): the answer goes to the
\* session's copy, that is to the multiplexing session; a local topic
\* sends it to the session
MasterReply(s, reqType, kind) ==
    /\ pemit < MaxEmit
    /\ kind \in ResponseKinds(reqType)
    /\ reqType = "Join" \/ s \in pattached.master
    /\ pemit' = pemit + 1
    /\ msend' = Append(msend, SrvMsg(kind, pemit + 1, s, reqType))
    /\ lout' = [lout EXCEPT ![s] = Append(@, [kind |-> kind, id |-> pemit + 1])]
    /\ pattached' = [pattached EXCEPT !.master = AttachedAfter(@, s, reqType, kind)]
    /\ req' = Req("reply", s, "", <<reqType, kind>>)
    /\ UNCHANGED <<tproxy, pout>>
    /\ ProxyFrame

\* The master topic broadcasts a message: one published by session s
\* (part_002 451-454) or one without a session; a local topic sends it to
\* every attached session
MasterBroadcast(s, kind) ==
    /\ pemit < MaxEmit
    /\ s = NoSess \/ s \in pattached.master
    /\ pattached.master # {}
    /\ pemit' = pemit + 1
    /\ msend' = Append(msend, SrvMsg(kind, pemit + 1, s,
                                     IF s = NoSess THEN "None" ELSE "Broadcast"))
    /\ lout' = [x \in ProxySessions |->
                  IF x \in pattached.master
                  THEN Append(lout[x], [kind |-> kind, id |-> pemit + 1])
                  ELSE lout[x]]
    /\ req' = Req("broadcast", s, "", <<kind>>)
    /\ UNCHANGED <<tproxy, pout, pattached>>
    /\ ProxyFrame

\* Session.clusterWriteLoop, case msg := <-sess.send (part_002 1003-1039),
\* with masterToProxy and TopicProxy at the other node (part_002 480-492)
clusterWriteLoop ==
    /\ msend # <<>>
    /\ LET srvMsg == Head(msend)
       IN tproxy' = Append(tproxy, [OrigSid |-> OrigSid(srvMsg),
                                    OrigReqType |-> srvMsg.proxyReq,
                                    SrvMsg |-> Envelope(srvMsg)])
    /\ msend' = Tail(msend)
    /\ req' = Req("writeLoop", NoSess, "", <<>>)
    /\ UNCHANGED <<pattached, pout, lout, pemit>>
    /\ ProxyFrame

\* The proxy topic takes a response from t.proxy and delivers it to its
\* sessions: to the session with the id OrigSid, or to all of them for "*"
ProxyDeliver ==
    /\ tproxy # <<>>
    /\ LET resp == Head(tproxy)
           to == IF resp.OrigSid = "*" THEN pattached.proxy ELSE {resp.OrigSid}
       IN /\ pout' = [x \in ProxySessions |->
                        IF x \in to THEN Append(pout[x], resp.SrvMsg) ELSE pout[x]]
          /\ pattached' = [pattached EXCEPT !.proxy =
                              IF resp.OrigSid = "*" THEN @
                              ELSE AttachedAfter(@, resp.OrigSid, resp.OrigReqType,
                                                 resp.SrvMsg.kind)]
    /\ tproxy' = Tail(tproxy)
    /\ req' = Req("deliver", NoSess, "", <<>>)
    /\ UNCHANGED <<msend, lout, pemit>>
    /\ ProxyFrame

InitProxy == InitHub

NextProxy ==
    \/ \E s \in ProxySessions, rt \in {"Join", "Leave", "Meta", "Broadcast"},
          k \in {"ctrl", "meta", "data"} : MasterReply(s, rt, k)
    \/ \E s \in ProxySessions \cup {NoSess}, k \in BroadcastKinds : MasterBroadcast(s, k)
    \/ clusterWriteLoop
    \/ ProxyDeliver

SpecProxy == InitProxy /\ [][NextProxy]_vars

(***************************************************************************)
(* Claims about ownership (SpecAcs).                                       *)
(***************************************************************************)
\* The users with O in both want and given, in the cache and in the store
OwnersCached == {u \in Users : perUser[u].has
                               /\ IsOwner(perUser[u].modeWant \cap perUser[u].modeGiven)}

OwnersStored == {u \in Users : storeSubs[u].has
                               /\ IsOwner(storeSubs[u].ModeWant \cap storeSubs[u].ModeGiven)}

\* C4: in every reachable state at most one user has O in both want and
\* given, in the topic cache and in the store.
C4_AtMostOneOwner ==
    /\ Cardinality(OwnersCached) <= 1
    /\ Cardinality(OwnersStored) <= 1

\* User u has been offered the ownership and has not accepted it yet
TransferPending(u) ==
    /\ u # owner
    /\ perUser[u].has
    /\ IsOwner(perUser[u].modeGiven)
    /\ ~IsOwner(perUser[u].modeWant)
    /\ storeSubs[u].has
    /\ ~IsOwner(storeSubs[u].ModeWant)

\* The step handles a sub or a set.sub of user u about itself whose want
\* has O
AcceptBy(u) ==
    /\ nreq' = nreq + 1
    /\ req'.op \in {"sub", "set"}
    /\ SessUid(req'.sess) = u
    /\ req'.user \in {"", u}
    /\ req'.arg = <<TRUE>>

\* C5: when a user u whose given has O and whose stored want lacks O submits
\* a want with O, the transfer is a unit: afterwards either t.owner = u, the
\* previous owner has no O in want and given and the store holds both
\* updated subscriptions, or (a store update failed) the owner, the two
\* users' cached modes and the store are as they were.
C5_TransferIsAUnit ==
    [][\A u \in Users :
          (TransferPending(u) /\ AcceptBy(u))
          => \/ /\ owner' = u
                /\ ~IsOwner(perUser'[owner].modeWant \cup perUser'[owner].modeGiven)
                /\ ~IsOwner(storeSubs'[owner].ModeWant \cup storeSubs'[owner].ModeGiven)
                /\ IsOwner(storeSubs'[u].ModeWant)
             \/ /\ owner' = owner
                /\ storeSubs' = storeSubs
                /\ \A v \in {u, owner} :
                      /\ perUser'[v].modeWant = perUser[v].modeWant
                      /\ perUser'[v].modeGiven = perUser[v].modeGiven]_vars

\* The step handles a set.sub that a user other than the owner issued about
\* another user
SetByNonOwner ==
    /\ nreq' = nreq + 1
    /\ req'.op = "set"
    /\ SessUid(req'.sess) # owner
    /\ req'.user \notin {"", SessUid(req'.sess)}

\* C6: a set.sub issued by a user other than the owner, a manager included,
\* does not remove O from the owner's given, does not ban the owner and
\* gives O to no user.
C6_OnlyOwnerChangesOwnership ==
    [][SetByNonOwner
       => /\ IsOwner(perUser[owner].modeGiven) => IsOwner(perUser'[owner].modeGiven)
          /\ ~IsBanned(perUser[owner].modeGiven) => ~IsBanned(perUser'[owner].modeGiven)
          /\ \A u \in Users : ~IsOwner(perUser[u].modeGiven)
                              => ~IsOwner(perUser'[u].modeGiven)
          /\ owner' = owner]_vars

(***************************************************************************)
(* Claims about the message counters (SpecMsg).                            *)
(***************************************************************************)
\* C2: in every reachable state and for every subscribed user,
\* 0 <= t.clearId <= pud.clearId <= pud.readId <= pud.recvId <= t.lastId.
C2_CounterChain ==
    \A u \in Users :
        perUser[u].has
        => /\ 0 <= clearId
           /\ clearId <= perUser[u].clearId
           /\ perUser[u].clearId <= perUser[u].readId
           /\ perUser[u].readId <= perUser[u].recvId
           /\ perUser[u].recvId <= lastId

\* C3: t.clearId and each user's clearId, readId and recvId never decrease,
\* whatever note and del.msg requests arrive.
C3_CountersNeverDecrease ==
    [][/\ clearId' >= clearId
       /\ \A u \in Users :
             /\ perUser'[u].clearId >= perUser[u].clearId
             /\ perUser'[u].readId >= perUser[u].readId
             /\ perUser'[u].recvId >= perUser[u].recvId]_vars

(***************************************************************************)
(* Claims about publishing (SpecPub).                                      *)
(***************************************************************************)
\* The number of times x occurs in the sequence q
Count(x, q) == Cardinality({i \in 1..Len(q) : q[i] = x})

\* The step takes a data message of a client session off t.broadcast
TakesData ==
    /\ broadcast # <<>>
    /\ broadcast' = Tail(broadcast)
    /\ Head(broadcast).kind = "data"
    /\ Head(broadcast).sessFrom # NoSess

\* The user of the message at the head of t.broadcast has W in want & given
HeadHasW ==
    "W" \in (perUser[SessUid(Head(broadcast).sessFrom)].modeWant
             \cap perUser[SessUid(Head(broadcast).sessFrom)].modeGiven)

\* The step left everything but the replies as it was: nothing persisted,
\* lastId unchanged, nothing sent to a session other than p, no push receipt
NoOtherEffect(p) ==
    /\ storeMsgs' = storeMsgs
    /\ lastId' = lastId
    /\ pushed' = pushed
    /\ \A s \in Sessions \ {p} : out'[s] = <<>> /\ lost'[s] = <<>>
    /\ UNCHANGED <<perUser, storeSubs, sessions, unregq, clearId>>

\* C9 as stated: a data message of a session whose user lacks W is answered
\* with 403 and has no other effect.
C9_DeniedAnswered403 ==
    [][(TakesData /\ ~HeadHasW)
       => /\ out'[Head(broadcast).sessFrom] = <<ErrPermissionDenied>>
          /\ NoOtherEffect(Head(broadcast).sessFrom)]_vars

\* C9: a data message of a session whose user lacks W has no effect but the
\* 403 queued for the publisher, which reaches the publisher unless its send
\* buffer is full; then queueOut gives the 403 up.
C9_DeniedNoEffect ==
    [][(TakesData /\ ~HeadHasW)
       => LET p == Head(broadcast).sessFrom IN
          /\ p \notin sendFull => out'[p] = <<ErrPermissionDenied>> /\ lost'[p] = <<>>
          /\ p \in sendFull => out'[p] = <<>> /\ lost'[p] = <<ErrPermissionDenied>>
          /\ NoOtherEffect(p)]_vars

\* A publisher without W has just got its 403
C9_Witness ==
    \E s \in Sessions :
        /\ "W" \notin (perUser[SessUid(s)].modeWant \cap perUser[SessUid(s)].modeGiven)
        /\ out[s] = <<ErrPermissionDenied>>
        /\ req = NoReq
        /\ nreq > 0
        /\ storeMsgs = <<>>

\* The step accepts the data message of an attached session whose user has
\* W: the store takes it as seq lastId + 1
Accepts ==
    /\ TakesData
    /\ HeadHasW
    /\ Head(broadcast).sessFrom \in sessions
    /\ lastId' = lastId + 1

\* The sessions the accepted message is for: all the attached ones, but
\* the publisher when the request set noecho
Recipients == sessions \ {Head(broadcast).sessSkip}

C7_RegistryIffOneActor ==
    /\ (topics # NoActor) <=> (Running # {})
    /\ Cardinality(Running) <= 1

\* C1: no two data messages delivered to sessions for the same topic name
\* carry the same seq.
C1_NoSeqDeliveredTwice ==
    \A d1, d2 \in delivered : d1[2] = d2[2] => d1[1] = d2[1]

\* C10: no message on its way to the broadcast mailbox of a registered
\* topic is discarded because the mailbox is full.
C10_NothingDiscarded == dropped = 0

(***************************************************************************)
(* More claims about access modes (SpecAcs).                               *)
(***************************************************************************)
\* Every want and given mode of the cache and of the store
ModesHeld ==
    UNION {{perUser[u].modeWant, perUser[u].modeGiven} : u \in {v \in Users : perUser[v].has}}
    \cup UNION {{storeSubs[u].ModeWant, storeSubs[u].ModeGiven} :
                   u \in {v \in Users : storeSubs[v].has}}

WantsOwnership(u) ==
    /\ nreq' = nreq + 1
    /\ req'.op \in {"sub", "set"}
    /\ SessUid(req'.sess) = u
    /\ req'.user \in {"", u}
    /\ req'.arg = <<TRUE>>

\* C13: a sub or set.sub on the user's own subscription whose want has O,
\* from a user whose given has no O (a first-time subscriber included),
\* leaves the cache and the store unchanged.
C13_OwnershipRequestRejected ==
    [][\A u \in Users :
          (WantsOwnership(u) /\ ~IsOwner(perUser[u].modeGiven))
          => /\ perUser' = perUser
             /\ storeSubs' = storeSubs
             /\ owner' = owner]_vars

\* C14: whenever the attached-session set of the topic becomes empty, by any
\* path, the kill timer is started.
C14_EmptyStartsKillTimer ==
    [][(sessions # {} /\ sessions' = {}) => killTimer']_vars

\* Actor a takes a reg off its t.reg mailbox
TakesReg(a) ==
    /\ actor[a].status = "run"
    /\ actor[a].reg # <<>>
    /\ actor'[a].reg = Tail(actor[a].reg)

\* C16: a topic never processes a reg for a session that is already in its
\* attached set.
C16_NoSecondReg ==
    [][\A a \in Actors : TakesReg(a) => Head(actor[a].reg) \notin actor[a].sessions]_vars

\* C15: once the Hub has set the shutdown flag no actor is registered or
\* started, so when the Hub has reported the shutdown complete no Topic
\* actor is running.
C15_ShutdownLeavesNoActor ==
    shutdown.done => Running = {}

(***************************************************************************)
(* Claims about the session's own requests (SpecSess).                     *)
(***************************************************************************)
\* The leave request handled by this step: its topic and its unsub flag
LeaveTopic == req'.arg[1]

LeaveUnsub == req'.arg[2]

\* C17: a {leave} of a session that has said {hi}: for a topic it is not
\* attached to the answer is 304 without unsub and 409 with unsub, and no
\* topic gets a request; unsub of an attached me or fnd is answered 405 and
\* the session stays attached; a plain leave of an attached me or fnd drops
\* the topic from s.subs and hands the leave to the topic.
C17_LeaveAnswers ==
    [][(req'.op = "leave" /\ ver # 0) =>
         /\ (LeaveTopic \notin subsOf /\ ~LeaveUnsub) =>
                (out'[TheSess] = <<InfoNotJoined>> /\ doneq' = doneq)
         /\ (LeaveTopic \notin subsOf /\ LeaveUnsub) =>
                (out'[TheSess] = <<ErrAttachFirst>> /\ doneq' = doneq)
         /\ (LeaveTopic \in subsOf \cap {"me", "fnd"} /\ LeaveUnsub) =>
                (out'[TheSess] = <<ErrOperationNotAllowed>> /\ subsOf' = subsOf)
         /\ (LeaveTopic \in subsOf \cap {"me", "fnd"} /\ ~LeaveUnsub) =>
                /\ subsOf' = subsOf \ {LeaveTopic}
                /\ doneq' = Append(doneq, [topic |-> LeaveTopic, unsub |-> FALSE])]_vars

\* The Version field of the {hi} handled by this step
HiVersion == req'.arg[1]

C11_P2PGoneWithItsSubs ==
    /\ Cardinality(p2p.dbSubs) <= 2
    /\ Cardinality(p2p.perUser) <= 2
    /\ (p2p.dbSubs = {} /\ ~p2p.loaded) => ~p2p.stored

StaleCall == req'.arg[1]

\* C20: a call of TopicMaster (a Gone notice included), Route or
\* UserCacheUpdate whose signature is not the signature of this node's ring
\* is answered rejected=true, changes nothing on this node (no multiplexing
\* session made or stopped, no user evicted, nothing handed to the Hub or a
\* topic), and gives the calling node an error.
C20_StaleSignatureRejected ==
    [][(req'.op \in {"TopicMaster", "Route", "UserCacheUpdate"}
            /\ StaleCall) =>
         /\ cluster'.rejected
         /\ cluster'.err
         /\ cluster'.msess = cluster.msess
         /\ cluster'.evicted = cluster.evicted
         /\ cluster'.enq = cluster.enq]_vars

(***************************************************************************)
(* Claims about the wire form of access modes (SpecMode).                  *)
(***************************************************************************)
\* The letters of a wire string, as a set
LettersOf(b) == {b[i] : i \in 1..Len(b)}

\* Parsing the serialization of amode gives amode
RoundTrip == UnmarshalText(MarshalText(amode), ModeNone) = amode

\* C22 as stated: for every mode, parsing its serialization yields the mode
\* again.
C22_EveryModeRoundTrips == RoundTrip

\* C22: every mode that has no X bit or is exactly X is read back from its
\* serialization; the serialization of a mode without X holds the letter of
\* each of its bits (N alone for no bit); every mode with the X bit is
\* written as the single letter X.
C22_CanonicalModeRoundTrips ==
    /\ ("X" \notin amode \/ amode = ModeBanned) => RoundTrip
    /\ ("X" \notin amode /\ amode # ModeNone) => LettersOf(MarshalText(amode)) = amode
    /\ amode = ModeNone => MarshalText(amode) = <<"N">>
    /\ "X" \in amode => MarshalText(amode) = <<"X">>

\* The owner's full mode has been written as RWPSDO
C22_Witness ==
    /\ req.op = "marshal"
    /\ amode = ModeFull
    /\ wire = <<"R", "W", "P", "S", "D", "O">>

\* The bits the letters of the last parsed string name
WireBits == {LetterBit(c) : c \in LettersOf(wire)}

\* C23: a wire string of mode letters that was parsed: with an X in it the
\* result is exactly the banned mode; without X and with an N in it the
\* result is no access.
C23_XAndNAbsorb ==
    (req.op = "unmarshal" /\ ~req.arg[1]) =>
        /\ "X" \in WireBits => amode = ModeBanned
        /\ ("X" \notin WireBits /\ "N" \in WireBits) => amode = ModeNone

(***************************************************************************)
(* Claims about the topic's bookkeeping of its users.                      *)
(***************************************************************************)
\* The attached sessions of user u
AttachedOf(u) == {s \in sessions : SessUid(s) = u}

\* C26: for every user in the topic's cache, online is the number of the
\* user's attached sessions, and it is not negative.
C26_OnlineCountsSessions ==
    \A u \in Users :
        perUser[u].has =>
            /\ perUser[u].online = Cardinality(AttachedOf(u))
            /\ perUser[u].online >= 0

\* C27: when the topic's owner field is set, the owner has an entry in the
\* cache and that entry has O in want and in given.
C27_OwnerEntryHasO ==
    owner # ZeroUid =>
        /\ perUser[owner].has
        /\ IsOwner(perUser[owner].modeWant)
        /\ IsOwner(perUser[owner].modeGiven)

\* The step handles a set.sub of a session that names another user
SetsOther == req'.op = "set" /\ req'.user \notin {"", SessUid(req'.sess)}

\* The requester of the set.sub is subscribed with O or S in want and given
RequesterManages ==
    /\ perUser[SessUid(req'.sess)].has
    /\ IsManager(perUser[SessUid(req'.sess)].modeWant)
    /\ IsManager(perUser[SessUid(req'.sess)].modeGiven)

\* C30: a set.sub that names another user: from a requester who is not a
\* manager in want and given it is answered 403 and neither cache nor store
\* changes; from a manager it changes at most the named user's entry, in the
\* cache and in the store, where the two hold the same given afterwards, and
\* an entry the named user had before keeps its want.
C30_ApproveChangesOnlyTarget ==
    [][SetsOther =>
         IF ~RequesterManages
         THEN /\ out'[req'.sess] = <<ErrPermissionDenied>>
              /\ UNCHANGED <<perUser, storeSubs, owner>>
         ELSE /\ \A u \in Users \ {req'.user} :
                    /\ perUser'[u] = perUser[u]
                    /\ storeSubs'[u] = storeSubs[u]
              /\ perUser[req'.user].has =>
                    perUser'[req'.user].modeWant = perUser[req'.user].modeWant
              /\ storeSubs'[req'.user].ModeGiven = perUser'[req'.user].modeGiven]_vars

(***************************************************************************)
(* Claims about the Hub's handling of joins and of store failures.         *)
(***************************************************************************)
\* C28: every sub handed to the Hub is answered in the end; so, while the
\* Hub is not shutting down, no actor whose Topic.run has returned holds a
\* join in its reg mailbox, where no one would ever read and answer it.
C28_NoJoinLeftBehind ==
    ~shutdown.inProgress =>
        \A a \in Actors : actor[a].status = "done" => actor[a].reg = <<>>


\* C29: a failed save of a data message the Hub routes to a topic that is
\* not loaded does not stop the Hub: Hub.run leaves its loop only through a
\* shutdown request, so later joins, routes and unregistrations are served.
C29_HubKeepsServing ==
    hubUp \/ shutdown.inProgress

\* The last Authenticate was given the token as GenSecret made it
Unchanged == authRes.err # "" /\ issue.err = "NoErr" /\ issue.changed = ""

\* C24: a token GenSecret makes for a valid level and a lifetime of at least
\* one second is accepted by an Authenticate at that time, with the uid, the
\* level and the expiry GenSecret reported; with its signature changed the
\* answer is ErrFailed, with its serial changed ErrMalformed, and unchanged
\* with less than a second to its expiry ErrExpired.
C24_TokenRoundTrip ==
    /\ (Unchanged /\ issue.authLvl <= LevelRoot /\ issue.lifetime >= SecTicks
           /\ authRes.at = issue.at)
          => /\ authRes.err = "NoErr"
             /\ authRes.uid = issue.uid
             /\ authRes.authLvl = issue.authLvl
             /\ authRes.expires = issue.expires
    /\ (authRes.err # "" /\ issue.authLvl <= LevelRoot /\ issue.changed = "sig")
          => authRes.err = "ErrFailed"
    /\ (authRes.err # "" /\ issue.changed = "serial") => authRes.err = "ErrMalformed"
    /\ (Unchanged /\ issue.authLvl <= LevelRoot
           /\ issue.expires - authRes.at < SecTicks)
          => authRes.err = "ErrExpired"

\* The me topic of user u is online
MeOnline(u) == me[u].run = "on"

\* No presence message is in flight and no me topic is half way up or down
PresQuiet ==
    /\ ~crashed
    /\ proute = <<>>
    /\ \A u \in PresUsers : /\ me[u].run \in {"none", "on"}
                             /\ me[u].broadcast = <<>>
                             /\ ~me[u].offPending

\* C21: with no presence message in flight and none dropped, every online
\* me topic holds an entry for the other user whose online flag tells
\* whether the other user's me topic is online.
C21_PresenceConverges ==
    (PresQuiet /\ pdropped = 0) =>
        \A u \in PresUsers :
            MeOnline(u) => /\ me[u].perSubs.has
                           /\ me[u].perSubs.online = MeOnline(Contact(u))

\* Sequence a is the beginning of sequence b
StartsWith(b, a) == Len(a) <= Len(b) /\ SubSeq(b, 1, Len(a)) = a

C31_KillTimerSparesAttached ==
    \A a \in Actors : actor[a].status = "unreg" => actor[a].sessions = {}

\* C32: the Hub's shutdown ends: the topic whose report the Hub is waiting
\* for is still in its loop, where it takes the exit signal and reports;
\* it is not stopped in a send that only the Hub's loop would receive.
C32_AwaitedTopicReports ==
    (shutdown.inProgress /\ shutdown.awaited # NoActor)
        => actor[shutdown.awaited].status = "run"

\* C33: the topic is never stopped for ever in a send it makes from its own
\* loop: whenever a message waits in t.broadcast and the store works, the
\* handler can run to its end, the leave requests it puts into its own
\* t.unreg for the stuck sessions included.
C33_OwnSendsComplete ==
    broadcast # <<>> => ENABLED TopicBroadcast(TRUE)

\* The codes of the error answers of login
LoginErrors == {400, 401, 409, 500}

\* C34: a login that is answered with an error ctrl leaves the session's
\* uid and auth level as they were.
C34_FailedLoginChangesNothing ==
    [][(req'.op = "login" /\ Len(out'[TheSess]) = 1
          /\ out'[TheSess][1].code \in LoginErrors)
         => auth' = auth]_vars

\* The last request was a set or a del that the session answered with 400
AnsweredMalformed ==
    /\ req.op \in {"set", "del"}
    /\ \E i \in 1..Len(out[TheSess]) : out[TheSess][i] = ErrMalformed

\* C35: a set or del that the session answers with 400 is handed on to no
\* one, and the 400 is the only response to it.
C35_MalformedNotForwarded ==
    [][AnsweredMalformed' => (metaq' = metaq /\ Len(out'[TheSess]) = 1)]_vars

\* C36: the counters of every get.desc reply satisfy
\* clearId <= readSeqId <= recvSeqId <= seqId.
C36_DescChain ==
    \A s \in Sessions :
        \A i \in 1..Len(out[s]) :
            out[s][i].kind = "meta"
            => /\ out[s][i].ClearId <= out[s][i].ReadSeqId
               /\ out[s][i].ReadSeqId <= out[s][i].RecvSeqId
               /\ out[s][i].RecvSeqId <= out[s][i].SeqId

\* C37: no message that get.data returns has a seq id at or below the
\* requester's soft-clear id.
C37_DataAboveClearId ==
    (req.op = "get" /\ req.arg = <<"data">>)
    => \A i \in 1..Len(out[req.sess]) :
           out[req.sess][i].kind = "data"
           => out[req.sess][i].seq > perUser[SessUid(req.sess)].clearId

\* C38: the message presProcReq puts on hub.route as its reply never has
\* wantReply set, whether it answers an "on" or a "?unkn".
C38_ReplyWantsNoReply ==
    [][(req'.op = "me.pres" /\ Len(proute') > Len(proute))
       => ~proute'[Len(proute')].wantReply]_vars

\* In every state of a started node: one reconnect loop at most, and one is
\* there while the node is disconnected and not shut down
OneLoopWhileDisconnected ==
    /\ Cardinality(LoopsRunning(cnode)) <= 1
    /\ (cnode.started /\ ~cnode.connected /\ ~cnode.shut) => LoopsRunning(cnode) # {}

\* C39: a failed call leaves the node disconnected with a reconnect loop
\* (unless the node is shut down), the node never has two reconnect loops,
\* a call made while the node is disconnected issues no RPC, and a
\* disconnected node that is not shut down has a reconnect loop.
C39_ReconnectLoop ==
    [][/\ \A c \in Callers :
              (cnode.call[c] = "idle" /\ cnode'.call[c] = "rpc") => cnode.connected
       /\ (req'.op = "node.return" /\ ~req'.arg[2])
              => (~cnode'.connected /\ (~cnode'.shut => LoopsRunning(cnode') # {}))
       /\ OneLoopWhileDisconnected']_vars

\* A call has failed on a connected node: the node is disconnected and the
\* new reconnect goroutine has not yet run
C39_Witness ==
    /\ req.op = "node.return"
    /\ ~req.arg[2]
    /\ ~cnode.connected
    /\ \E i \in Loops : cnode.loop[i] = "start"

\* C40: the topic has one multiplexing session with a running write loop at
\* most for the proxy node, and the node's msess holds the session's id
\* exactly while the session is alive.
C40_OneMuxSession ==
    /\ Cardinality(mux.alive) <= 1
    /\ mux.inMsess <=> mux.alive # {}

==========================================================================
